---- MODULE Spec2Model ----
(***************************************************************************)
(* A model of the Go package "schedule" (tshprecher/schedule):             *)
(*   - resourceVector / resourceVectorPool        (src/resource.go)        *)
(*   - FifoScheduler, PartitionedScheduler,                                *)
(*     ResourceManagedScheduler, resourceTask      (src/scheduler.go)      *)
(* A scheduler is a value tagged with its kind; the Scheduler interface    *)
(* (Contains, Put, Next, Size, Remove) dispatches on the tag, so that      *)
(* schedulers nest exactly as the Go values do.  Pools and granted         *)
(* resource vectors are heap objects shared by reference in the code; the  *)
(* model keeps them in the variables pool and handles and refers to them   *)
(* by identifier.                                                          *)
(***************************************************************************)
EXTENDS Integers, Sequences, FiniteSets, TLC

\* ------------------------------------------------------------------ bounds
MaxTask == 3        \* task identifiers are 1..MaxTask
MaxBatch == 2       \* most arguments of one variadic Put call
MaxHandles == 2     \* most resource vectors granted in one behaviour
MaxResourceTask == 2    \* the tasks Put into the schedulers with a pool
MaxResourceBatch == 1   \* most arguments of one Put call on them

Tasks == 1..MaxTask

\* The nil Task / nil ScheduledTask / nil Resource.
NoTask == 0
NoResource == 0

\* ------------------------------------------------------------ the tasks
\* sim.go SimTask{Identifier, UserId, RuntimeMs}: the population of tasks.
\* Identifier is the task id itself; users alternate; the upper half of
\* the ids are the slow tasks (RuntimeMs >= 50).
UserId(t) == ((t - 1) % 2) + 1

RuntimeMs(t) == IF 2 * t > MaxTask THEN 50 ELSE 10

\* ---------------------------------------------------------------- pools
\* A pool is identified by the place it was created for: the root pool is
\* the one handed to the outermost NewResourceManagedScheduler, the others
\* are created by a partitioner's factory for the partition <<priority, key>>.
RootPool == <<0, "root">>

\* resourceVector.pool == nil
NoPool == <<0, "nil">>

\* ResourceCalculator: singleUseResourceCalc (sim_ex.go) and the calc of
\* TestResourceManagedScheduler both answer the vector [1] for every task.
\* A ResourceCalculator is any function of the task (scheduler.go:251-254):
\* unitsResourceCalc is one whose answer depends on it, t units for task t.
ResourceCalculator(name, t) ==
    CASE name = "singleUseResourceCalc" -> <<1>>
      [] name = "unitsResourceCalc" -> <<t>>

\* RequestGranted comparing with one unit more than is available.
Mut_RequestGranted(avail, v) ==
    /\ Len(v) = Len(avail)
    /\ \A i \in 1..Len(avail) : ~(v[i] > avail[i] + 1)

\* resourceVectorPool.Request, lines 53-62: the request is granted iff the
\* lengths agree and no component exceeds what is available.
RequestGranted(avail, v) ==
    /\ Len(v) = Len(avail)
    /\ \A i \in 1..Len(avail) : ~(v[i] > avail[i])

\* Decrement with the subtraction of line 64 left out.
Mut_Decrement(avail, v) == [i \in 1..Len(avail) |-> avail[i]]

\* resourceVectorPool.Request, lines 63-65.
Decrement(avail, v) == [i \in 1..Len(avail) |-> avail[i] - v[i]]

\* resourceVectorPool_add with the addition of line 78 left out.
Mut_resourceVectorPool_add(avail, v) == avail

\* resourceVectorPool.add: false, and nothing added, when the lengths differ.
resourceVectorPool_add(avail, v) ==
    IF Len(avail) # Len(v) THEN avail
    ELSE [i \in 1..Len(avail) |-> avail[i] + v[i]]

\* resourceVectorPool_Request handing out a handle without the back-reference
\* to the pool.
Mut_resourceVectorPool_Request(pl, hs, id, v) ==
    IF ~RequestGranted(pl[id], v)
    THEN [pool |-> pl, handles |-> hs, resource |-> NoResource]
    ELSE [pool |-> [pl EXCEPT ![id] = Decrement(pl[id], v)],
          handles |-> Append(hs, [pool |-> NoPool, resources |-> v]),
          resource |-> Len(hs) + 1]

\* resourceVectorPool_Request with the two loops of lines 58-65 merged into
\* one: the components before the first one that is too large are
\* decremented before the request is denied.
Mut_PartialDecrement_Request(pl, hs, id, v) ==
    IF Len(v) # Len(pl[id])
    THEN [pool |-> pl, handles |-> hs, resource |-> NoResource]
    ELSE IF ~RequestGranted(pl[id], v)
    THEN [pool |-> [pl EXCEPT ![id] =
                        [i \in 1..Len(pl[id]) |->
                            IF \A j \in 1..i : ~(v[j] > pl[id][j])
                            THEN pl[id][i] - v[i] ELSE pl[id][i]]],
          handles |-> hs, resource |-> NoResource]
    ELSE [pool |-> [pl EXCEPT ![id] = Decrement(pl[id], v)],
          handles |-> Append(hs, [pool |-> id, resources |-> v]),
          resource |-> Len(hs) + 1]

\* resourceVectorPool.Request on pool id of pl, with the handles hs granted
\* so far: the new pools, the new handles and the granted handle (its index
\* in handles), NoResource when the request is denied.  The handle holds a
\* copy of the request and the back-reference to the pool.
resourceVectorPool_Request(pl, hs, id, v) ==
    IF ~RequestGranted(pl[id], v)
    THEN [pool |-> pl, handles |-> hs, resource |-> NoResource]
    ELSE [pool |-> [pl EXCEPT ![id] = Decrement(pl[id], v)],
          handles |-> Append(hs, [pool |-> id, resources |-> v]),
          resource |-> Len(hs) + 1]

\* NewResourceVectorRequest: a vector with no pool behind it.
NewResourceVectorRequest(v) == [pool |-> NoPool, resources |-> v]

\* resourceVector_Return with line 34, r.pool = nil, left out.
Mut_resourceVector_Return(pl, hs, h) ==
    IF hs[h].pool = NoPool
    THEN [pool |-> pl, handles |-> hs, ok |-> FALSE]
    ELSE [pool |-> [pl EXCEPT ![hs[h].pool] =
                        resourceVectorPool_add(pl[hs[h].pool], hs[h].resources)],
          handles |-> hs,
          ok |-> TRUE]

\* resourceVector.Return on handle h.
resourceVector_Return(pl, hs, h) ==
    IF hs[h].pool = NoPool
    THEN [pool |-> pl, handles |-> hs, ok |-> FALSE]
    ELSE [pool |-> [pl EXCEPT ![hs[h].pool] =
                        resourceVectorPool_add(pl[hs[h].pool], hs[h].resources)],
          handles |-> [hs EXCEPT ![h].pool = NoPool],
          ok |-> TRUE]

\* ----------------------------------------------------------------- FIFO
\* maxUnusedSliceSpace and unusedSliceCount only decide when Put copies the
\* slice into a fresh one with the same elements (lines 79-85); no method
\* reads them otherwise, and the model leaves the two fields out.
NewFifoScheduler == [kind |-> "fifo", elements |-> <<>>, elementMap |-> {}]

FifoScheduler_Contains(f, t) == t \in f.elementMap

\* The loop body of FifoScheduler.Put, lines 72-77.
FifoPutOne(f, t) ==
    IF t \in f.elementMap THEN f
    ELSE [f EXCEPT !.elements = Append(@, t), !.elementMap = @ \cup {t}]

RECURSIVE FifoPutLoop(_, _)
FifoPutLoop(f, tasks) ==
    IF tasks = <<>> THEN f
    ELSE FifoPutLoop(FifoPutOne(f, Head(tasks)), Tail(tasks))

\* FifoScheduler.Put
FifoScheduler_Put(f, tasks) == FifoPutLoop(f, tasks)

\* FifoScheduler_Next taking the newest element instead of f.elements[0].
Mut_FifoScheduler_Next(f) ==
    IF Len(f.elements) = 0 THEN [s |-> f, task |-> NoTask]
    ELSE [s |-> [f EXCEPT !.elements = SubSeq(@, 1, Len(@) - 1),
                          !.elementMap = @ \ {f.elements[Len(f.elements)]}],
          task |-> f.elements[Len(f.elements)]]

FifoScheduler_Next(f) ==
    IF Len(f.elements) = 0 THEN [s |-> f, task |-> NoTask]
    ELSE [s |-> [f EXCEPT !.elements = Tail(@),
                          !.elementMap = @ \ {Head(f.elements)}],
          task |-> Head(f.elements)]

\* FifoScheduler.Remove: the first element with the id is cut out.
FifoScheduler_Remove(f, id) ==
    LET hits == {e \in 1..Len(f.elements) : f.elements[e] = id}
    IN  IF hits = {} THEN [s |-> f, task |-> NoTask]
        ELSE LET e == CHOOSE x \in hits : \A y \in hits : x <= y
             IN  [s |-> [f EXCEPT !.elements = SubSeq(@, 1, e - 1)
                                               \o SubSeq(@, e + 1, Len(@)),
                                  !.elementMap = @ \ {id}],
                  task |-> f.elements[e]]

FifoScheduler_Size(f) == Len(f.elements)


\* --------------------------------------------------------- partitioners
\* Partitioner: task -> (key, priority, factory).  The partitioners of the
\* tests and of sim_ex, by name; priResourcePartitioner routes as
\* priPartitioner does and builds resource managed partitions.
PartitionerKey(name, t) ==
    CASE name = "noPriPartitioner" -> IF t % 2 = 0 THEN "even" ELSE "odd"
      [] name \in {"priPartitioner", "priResourcePartitioner"} ->
            IF t % 3 = 0 THEN "rem_0" ELSE IF t % 3 = 1 THEN "rem_1" ELSE "rem_2"
      [] name = "userPartitioner" -> IF UserId(t) = 1 THEN "1" ELSE "2"
      [] name = "timeAndUserPartitioner" ->
            IF RuntimeMs(t) >= 50 THEN "slow" ELSE "fast"
      [] name = "flipPartitioner0" -> IF t % 2 = 0 THEN "even" ELSE "odd"
      [] name = "flipPartitioner1" -> IF t % 2 = 0 THEN "odd" ELSE "even"

PartitionerPriority(name, t) ==
    CASE name = "noPriPartitioner" -> 1
      [] name \in {"priPartitioner", "priResourcePartitioner"} ->
            IF t % 3 = 0 THEN 3 ELSE IF t % 3 = 1 THEN 2 ELSE 1
      [] name = "userPartitioner" -> 0
      [] name = "timeAndUserPartitioner" -> 0
      [] name = "flipPartitioner0" -> 1
      [] name = "flipPartitioner1" -> 1 + (t % 2)

\* A Partitioner is any function, also one with a state of its own that
\* answers differently from call to call: flipPartitioner swaps the keys
\* "odd" and "even" and changes the priorities with every call, and its
\* name carries the parity of the calls made.  The other partitioners have
\* no state.
PartitionerAfterCall(name) ==
    CASE name = "flipPartitioner0" -> "flipPartitioner1"
      [] name = "flipPartitioner1" -> "flipPartitioner0"
      [] OTHER -> name

NewPartitionedScheduler(p) ==
    [kind |-> "part", partitioner |-> p, prioritizedPartitions |-> <<>>]

NewResourceManagedScheduler(underlying, poolId, calc) ==
    [kind |-> "rms", waiting |-> NoTask, underlying |-> underlying,
     pool |-> poolId, resourceCalculator |-> calc]

\* The SchedulerFactory the partitioner answers, called for the new partition
\* <<pri, key>>; a resource managed partition gets a pool of its own.
PartitionerFactory(name, pri, key) ==
    CASE name \in {"noPriPartitioner", "priPartitioner", "userPartitioner",
                   "flipPartitioner0", "flipPartitioner1"} ->
            NewFifoScheduler
      [] name = "timeAndUserPartitioner" ->
            NewResourceManagedScheduler(NewPartitionedScheduler("userPartitioner"),
                                        <<pri, key>>, "singleUseResourceCalc")
      [] name = "priResourcePartitioner" ->
            NewResourceManagedScheduler(NewFifoScheduler,
                                        <<pri, key>>, "singleUseResourceCalc")

ResourcePartitioners == {"timeAndUserPartitioner", "priResourcePartitioner"}

\* The pools a factory can create, and all pools.
PartitionPools ==
    {<<PartitionerPriority(n, t), PartitionerKey(n, t)>> :
        n \in ResourcePartitioners, t \in Tasks}

PoolIds == {RootPool} \cup PartitionPools

\* -------------------------------------------------- PartitionedScheduler
\* PartitionedScheduler.Contains: the caches of all partitions.
PartitionedScheduler_Contains(p, t) ==
    \E i \in 1..Len(p.prioritizedPartitions) :
        \E j \in 1..Len(p.prioritizedPartitions[i].partitions) :
            t \in p.prioritizedPartitions[i].partitions[j].cache

\* Put, lines 161-177: the index of the task's priorityIterator after the
\* level list has been extended if needed.  The loop stops at the first
\* level whose priority is pri or lower.
LevelIndex(levels, pri) ==
    LET stops == {i \in 1..Len(levels) : levels[i].priority <= pri}
    IN  IF stops = {} THEN Len(levels) + 1
        ELSE CHOOSE i \in stops : \A k \in stops : i <= k

\* WithLevel putting a new level at the end of the list, whatever its
\* priority.
Mut_WithLevel(levels, pri) ==
    IF \E i \in 1..Len(levels) : levels[i].priority = pri THEN levels
    ELSE Append(levels, [priority |-> pri, partitions |-> <<>>, pos |-> 0])

\* Put, lines 161-177: the level list with the task's priorityIterator in it,
\* inserted before the first level of lower priority when it was missing.
WithLevel(levels, pri) ==
    LET i == LevelIndex(levels, pri)
        newIter == [priority |-> pri, partitions |-> <<>>, pos |-> 0]
    IN  IF i <= Len(levels) /\ levels[i].priority = pri THEN levels
        ELSE SubSeq(levels, 1, i - 1) \o <<newIter>>
                 \o SubSeq(levels, i, Len(levels))

\* SearchSteps with a loop that makes one step less than there are
\* partitions: the partition the cursor stands on is not looked at.
Mut_SearchSteps(iter, key) ==
    LET n == Len(iter.partitions)
        hits == {k \in 1..(n - 1) :
                    iter.partitions[((iter.pos + k) % n) + 1].key = key}
    IN  IF hits = {} THEN 0 ELSE CHOOSE k \in hits : \A m \in hits : k <= m

\* Put, lines 179-186: the search for the key moves the cursor itself; the
\* number of steps the cursor makes before it stands on the key, 0 when no
\* partition has the key.
SearchSteps(iter, key) ==
    LET n == Len(iter.partitions)
        hits == {k \in 1..n : iter.partitions[((iter.pos + k) % n) + 1].key = key}
    IN  IF hits = {} THEN 0 ELSE CHOOSE k \in hits : \A m \in hits : k <= m

\* WithPartition with a search that leaves the cursor where it was when the
\* partition exists.
Mut_KeepCursor_WithPartition(iter, key, newValue) ==
    LET n == Len(iter.partitions)
        k == SearchSteps(iter, key)
    IN  IF k > 0 THEN iter
        ELSE [iter EXCEPT
                !.partitions = Append(@, [key |-> key, value |-> newValue,
                                          cache |-> {}]),
                !.pos = n]

\* WithPartition putting a missing partition in front of the others.
Mut_WithPartition(iter, key, newValue) ==
    LET n == Len(iter.partitions)
        k == SearchSteps(iter, key)
    IN  IF k > 0 THEN [iter EXCEPT !.pos = (iter.pos + k) % n]
        ELSE [iter EXCEPT
                !.partitions = <<[key |-> key, value |-> newValue,
                                  cache |-> {}]>> \o @,
                !.pos = 0]

\* Put, lines 179-190: the iterator with the cursor on the task's partition,
\* which is appended (with a scheduler from the factory) when it is missing.
WithPartition(iter, key, newValue) ==
    LET n == Len(iter.partitions)
        k == SearchSteps(iter, key)
    IN  IF k > 0 THEN [iter EXCEPT !.pos = (iter.pos + k) % n]
        ELSE [iter EXCEPT
                !.partitions = Append(@, [key |-> key, value |-> newValue,
                                          cache |-> {}]),
                !.pos = n]

\* AdvancedPos without the modulo of line 203.
Mut_NoWrap_AdvancedPos(pos, i, n) == pos + i + 1

\* AdvancedPos leaving the cursor on the partition that served.
Mut_AdvancedPos(pos, i, n) == (pos + i) % n

\* Next, line 203: the cursor after partition (pos + i) % n has served.
AdvancedPos(pos, i, n) == (pos + i + 1) % n

RECURSIVE Contains(_, _), Put(_, _), Next(_, _, _), Remove(_, _), Size(_),
          PartPutLoop(_, _), PartProbe(_, _, _, _, _), PartRemoveScan(_, _, _, _),
          PartSizeFrom(_, _, _)

\* PartPutOne without the Contains test of lines 157-159.
Mut_PartPutOne(p, t) ==
    LET key == PartitionerKey(p.partitioner, t)
        pri == PartitionerPriority(p.partitioner, t)
        levels == WithLevel(p.prioritizedPartitions, pri)
        li == LevelIndex(levels, pri)
        iter == WithPartition(levels[li], key,
                              PartitionerFactory(p.partitioner, pri, key))
        idx == iter.pos + 1
        part == iter.partitions[idx]
        newPart == [part EXCEPT !.cache = @ \cup {t},
                                !.value = Put(part.value, <<t>>)]
    IN  [p EXCEPT !.partitioner = PartitionerAfterCall(@),
                  !.prioritizedPartitions =
            [levels EXCEPT ![li] =
                [iter EXCEPT !.partitions[idx] = newPart]]]

\* The loop body of PartitionedScheduler.Put, lines 157-192.
PartPutOne(p, t) ==
    IF PartitionedScheduler_Contains(p, t) THEN p
    ELSE
    LET key == PartitionerKey(p.partitioner, t)
        pri == PartitionerPriority(p.partitioner, t)
        levels == WithLevel(p.prioritizedPartitions, pri)
        li == LevelIndex(levels, pri)
        iter == WithPartition(levels[li], key,
                              PartitionerFactory(p.partitioner, pri, key))
        idx == iter.pos + 1
        part == iter.partitions[idx]
        newPart == [part EXCEPT !.cache = @ \cup {t},
                                !.value = Put(part.value, <<t>>)]
    IN  [p EXCEPT !.partitioner = PartitionerAfterCall(@),
                  !.prioritizedPartitions =
            [levels EXCEPT ![li] =
                [iter EXCEPT !.partitions[idx] = newPart]]]

PartPutLoop(p, tasks) ==
    IF tasks = <<>> THEN p
    ELSE PartPutLoop(PartPutOne(p, Head(tasks)), Tail(tasks))

PartitionedScheduler_Put(p, tasks) == PartPutLoop(p, tasks)

\* PartitionedScheduler.Next: the probe of partition (pos + i) % n of level
\* li and of all that follow it.  A probed sub-scheduler keeps what its own
\* Next did to it, also when it answered nil.
PartProbe(p, li, i, pl, hs) ==
    IF li > Len(p.prioritizedPartitions)
    THEN [s |-> p, task |-> NoTask, resource |-> NoResource,
          pool |-> pl, handles |-> hs]
    ELSE
    LET pi == p.prioritizedPartitions[li]
        n == Len(pi.partitions)
    IN  IF i >= n THEN PartProbe(p, li + 1, 0, pl, hs)
        ELSE
        LET idx == (pi.pos + i) % n
            r == Next(pi.partitions[idx + 1].value, pl, hs)
            probed == [p EXCEPT
                !.prioritizedPartitions[li].partitions[idx + 1].value = r.s]
        IN  IF r.task # NoTask
            THEN [s |-> [probed EXCEPT
                    !.prioritizedPartitions[li].partitions[idx + 1].cache =
                        @ \ {r.task},
                    !.prioritizedPartitions[li].pos = AdvancedPos(pi.pos, i, n)],
                  task |-> r.task, resource |-> r.resource,
                  pool |-> r.pool, handles |-> r.handles]
            ELSE PartProbe(probed, li, i + 1, r.pool, r.handles)

\* A Next that probes the partition under the cursor of the first level and
\* gives up when that one answers nothing.
Mut_PartitionedScheduler_Next(p, pl, hs) ==
    LET none == [s |-> p, task |-> NoTask, resource |-> NoResource,
                 pool |-> pl, handles |-> hs]
    IN  IF p.prioritizedPartitions = <<>> THEN none
        ELSE LET pi == p.prioritizedPartitions[1]
                 n == Len(pi.partitions)
             IN  IF n = 0 THEN none
                 ELSE IF Next(pi.partitions[(pi.pos % n) + 1].value,
                              pl, hs).task = NoTask
                      THEN none
                      ELSE PartProbe(p, 1, 0, pl, hs)

PartitionedScheduler_Next(p, pl, hs) == PartProbe(p, 1, 0, pl, hs)

\* PartitionedScheduler.Remove: partition j of level li and all that follow.
PartRemoveScan(p, li, j, id) ==
    IF li > Len(p.prioritizedPartitions) THEN [s |-> p, task |-> NoTask]
    ELSE
    LET pri == p.prioritizedPartitions[li]
    IN  IF j > Len(pri.partitions) THEN PartRemoveScan(p, li + 1, 1, id)
        ELSE
        LET r == Remove(pri.partitions[j].value, id)
            scanned == [p EXCEPT
                !.prioritizedPartitions[li].partitions[j].value = r.s]
        IN  IF r.task # NoTask
            THEN [s |-> [scanned EXCEPT
                    !.prioritizedPartitions[li].partitions[j].cache = @ \ {id}],
                  task |-> r.task]
            ELSE PartRemoveScan(scanned, li, j + 1, id)

PartitionedScheduler_Remove(p, id) == PartRemoveScan(p, 1, 1, id)

PartSizeFrom(p, li, j) ==
    IF li > Len(p.prioritizedPartitions) THEN 0
    ELSE IF j > Len(p.prioritizedPartitions[li].partitions)
         THEN PartSizeFrom(p, li + 1, 1)
         ELSE Size(p.prioritizedPartitions[li].partitions[j].value)
                + PartSizeFrom(p, li, j + 1)

PartitionedScheduler_Size(p) == PartSizeFrom(p, 1, 1)

\* ---------------------------------------------- ResourceManagedScheduler
ResourceManagedScheduler_Contains(r, t) ==
    (r.waiting # NoTask /\ r.waiting = t) \/ Contains(r.underlying, t)

\* ResourceManagedScheduler.Put delegates, whatever is waiting.
ResourceManagedScheduler_Put(r, tasks) ==
    [r EXCEPT !.underlying = Put(r.underlying, tasks)]

\* ResourceManagedScheduler_Next asking the underlying scheduler for another
\* task when the pool denies the demand of the waiting one, which stays
\* parked.
Mut_BypassWaiting_Next(r, pl, hs) ==
    LET held == r.waiting # NoTask
        q0 == resourceVectorPool_Request(pl, hs, r.pool,
                  ResourceCalculator(r.resourceCalculator, r.waiting))
    IN  IF held /\ q0.resource # NoResource
        THEN [s |-> [r EXCEPT !.waiting = NoTask],
              task |-> r.waiting, resource |-> q0.resource,
              pool |-> q0.pool, handles |-> q0.handles]
        ELSE
        LET next == Next(r.underlying, pl, hs)
            drawn == [r EXCEPT !.underlying = next.s]
        IN  IF next.task = NoTask
            THEN [s |-> drawn, task |-> NoTask, resource |-> NoResource,
                  pool |-> next.pool, handles |-> next.handles]
            ELSE
            LET q == resourceVectorPool_Request(next.pool, next.handles, r.pool,
                         ResourceCalculator(r.resourceCalculator, next.task))
            IN  IF q.resource = NoResource
                THEN [s |-> IF held THEN r
                            ELSE [drawn EXCEPT !.waiting = next.task],
                      task |-> NoTask, resource |-> NoResource,
                      pool |-> next.pool, handles |-> next.handles]
                ELSE [s |-> drawn, task |-> next.task,
                      resource |-> q.resource,
                      pool |-> q.pool, handles |-> q.handles]

\* ResourceManagedScheduler_Next giving up the waiting task when the pool
\* denies its demand again.
Mut_ResourceManagedScheduler_Next(r, pl, hs) ==
    IF r.waiting # NoTask
    THEN LET q == resourceVectorPool_Request(pl, hs, r.pool,
                      ResourceCalculator(r.resourceCalculator, r.waiting))
         IN  IF q.resource = NoResource
             THEN [s |-> [r EXCEPT !.waiting = NoTask], task |-> NoTask,
                   resource |-> NoResource, pool |-> pl, handles |-> hs]
             ELSE [s |-> [r EXCEPT !.waiting = NoTask],
                   task |-> r.waiting, resource |-> q.resource,
                   pool |-> q.pool, handles |-> q.handles]
    ELSE LET next == Next(r.underlying, pl, hs)
             drawn == [r EXCEPT !.underlying = next.s]
             q == resourceVectorPool_Request(next.pool, next.handles, r.pool,
                      ResourceCalculator(r.resourceCalculator, next.task))
         IN  IF next.task = NoTask
             THEN [s |-> drawn, task |-> NoTask, resource |-> NoResource,
                   pool |-> next.pool, handles |-> next.handles]
             ELSE IF q.resource = NoResource
             THEN [s |-> [drawn EXCEPT !.waiting = next.task],
                   task |-> NoTask, resource |-> NoResource,
                   pool |-> next.pool, handles |-> next.handles]
             ELSE [s |-> drawn, task |-> next.task, resource |-> q.resource,
                   pool |-> q.pool, handles |-> q.handles]

\* ResourceManagedScheduler.Next.  The resourceTask wraps next.Task() and the
\* granted resource only: a resource the underlying scheduler attached to
\* the task it answered is not carried along.
ResourceManagedScheduler_Next(r, pl, hs) ==
    IF r.waiting # NoTask
    THEN LET q == resourceVectorPool_Request(pl, hs, r.pool,
                      ResourceCalculator(r.resourceCalculator, r.waiting))
         IN  IF q.resource = NoResource
             THEN [s |-> r, task |-> NoTask, resource |-> NoResource,
                   pool |-> pl, handles |-> hs]
             ELSE [s |-> [r EXCEPT !.waiting = NoTask],
                   task |-> r.waiting, resource |-> q.resource,
                   pool |-> q.pool, handles |-> q.handles]
    ELSE LET next == Next(r.underlying, pl, hs)
             drawn == [r EXCEPT !.underlying = next.s]
         IN  IF next.task = NoTask
             THEN [s |-> drawn, task |-> NoTask, resource |-> NoResource,
                   pool |-> next.pool, handles |-> next.handles]
             ELSE
             LET q == resourceVectorPool_Request(next.pool, next.handles, r.pool,
                          ResourceCalculator(r.resourceCalculator, next.task))
             IN  IF q.resource = NoResource
                 THEN [s |-> [drawn EXCEPT !.waiting = next.task],
                       task |-> NoTask, resource |-> NoResource,
                       pool |-> next.pool, handles |-> next.handles]
                 ELSE [s |-> drawn, task |-> next.task,
                       resource |-> q.resource,
                       pool |-> q.pool, handles |-> q.handles]

\* ResourceManagedScheduler.Remove: the waiting task is answered and stays
\* in r.waiting (line 304 returns without clearing the field).
ResourceManagedScheduler_Remove(r, id) ==
    IF r.waiting # NoTask /\ r.waiting = id
    THEN [s |-> r, task |-> r.waiting]
    ELSE LET u == Remove(r.underlying, id)
         IN  [s |-> [r EXCEPT !.underlying = u.s], task |-> u.task]

ResourceManagedScheduler_Size(r) ==
    IF r.waiting = NoTask THEN Size(r.underlying)
    ELSE 1 + Size(r.underlying)

\* ------------------------------------------------ the Scheduler interface
Contains(s, t) ==
    CASE s.kind = "fifo" -> FifoScheduler_Contains(s, t)
      [] s.kind = "part" -> PartitionedScheduler_Contains(s, t)
      [] s.kind = "rms" -> ResourceManagedScheduler_Contains(s, t)

Put(s, tasks) ==
    CASE s.kind = "fifo" -> FifoScheduler_Put(s, tasks)
      [] s.kind = "part" -> PartitionedScheduler_Put(s, tasks)
      [] s.kind = "rms" -> ResourceManagedScheduler_Put(s, tasks)

\* A FifoScheduler answers a defaultScheduledTask, which carries no resource.
Next(s, pl, hs) ==
    CASE s.kind = "fifo" ->
            LET r == FifoScheduler_Next(s)
            IN  [s |-> r.s, task |-> r.task, resource |-> NoResource,
                 pool |-> pl, handles |-> hs]
      [] s.kind = "part" -> PartitionedScheduler_Next(s, pl, hs)
      [] s.kind = "rms" -> ResourceManagedScheduler_Next(s, pl, hs)

Remove(s, id) ==
    CASE s.kind = "fifo" -> FifoScheduler_Remove(s, id)
      [] s.kind = "part" -> PartitionedScheduler_Remove(s, id)
      [] s.kind = "rms" -> ResourceManagedScheduler_Remove(s, id)

Size(s) ==
    CASE s.kind = "fifo" -> FifoScheduler_Size(s)
      [] s.kind = "part" -> PartitionedScheduler_Size(s)
      [] s.kind = "rms" -> ResourceManagedScheduler_Size(s)

\* ScheduledTask_Close with the no-op Close of defaultScheduledTask for every
\* scheduled task.
Mut_ScheduledTask_Close(pl, hs, st) == [pool |-> pl, handles |-> hs]

\* resourceTask.Close / defaultScheduledTask.Close on the scheduled task st.
ScheduledTask_Close(pl, hs, st) ==
    IF st.resource = NoResource THEN [pool |-> pl, handles |-> hs]
    ELSE LET r == resourceVector_Return(pl, hs, st.resource)
         IN  [pool |-> r.pool, handles |-> r.handles]

\* ------------------------------------------------------------- the state
VARIABLES
    sched,      \* the scheduler the caller holds (the outermost one)
    pool,       \* pool id -> resourceVectorPool.resources
    capacity,   \* pool id -> the vector the pool was created with
    handles,    \* the resource vectors granted so far: [pool, resources]
    scheduled,  \* the resourceTasks Next has handed to the caller
    returned,   \* the handles on which Return has been called
    ret,        \* the last call, its arguments and the task it returned
    accepted,   \* ids accepted and not yet returned, in order of acceptance
    owed,       \* <<q, r>>: since partition q last served, partition r of
                \* the same level has held a task all along and not served
    nPut,       \* accounting: Put arguments accepted
    nNext,      \* accounting: Next calls that returned a task
    nRemove,    \* accounting: Remove calls that returned a task
    input,      \* scenario: the order in which the tasks are Put
    output,     \* scenario: the tasks Next has returned, in order
    threads,    \* thread -> the call on the pool it is in, and where
    mut,        \* resourceVectorPool.mut: the thread that holds the lock
    drawn,      \* the tasks the wrapped scheduler's Next has answered
    nextParity  \* progress: the parity of the Next calls made

vars == <<sched, pool, capacity, handles, scheduled, returned, ret, accepted, owed,
          nPut, nNext, nRemove, input, output,
          threads, mut, drawn, nextParity>>

\* The ids of the tasks reachable from a scheduler: the elements of a
\* FifoScheduler, the waiting task and the underlying scheduler's tasks of a
\* ResourceManagedScheduler, the tasks of every partition's scheduler.
RECURSIVE HeldIds(_)
HeldIds(s) ==
    CASE s.kind = "fifo" -> {s.elements[i] : i \in 1..Len(s.elements)}
      [] s.kind = "rms" -> ({s.waiting} \ {NoTask}) \cup HeldIds(s.underlying)
      [] s.kind = "part" ->
            UNION {UNION {HeldIds(s.prioritizedPartitions[i].partitions[j].value) :
                            j \in 1..Len(s.prioritizedPartitions[i].partitions)} :
                     i \in 1..Len(s.prioritizedPartitions)}

\* The partition a task belongs to, and the partitions that hold a task.
PartitionOf(p, t) ==
    <<PartitionerPriority(p.partitioner, t), PartitionerKey(p.partitioner, t)>>

NonEmptyPartitions(p) ==
    UNION {{<<p.prioritizedPartitions[i].priority,
              p.prioritizedPartitions[i].partitions[j].key>> :
                j \in {k \in 1..Len(p.prioritizedPartitions[i].partitions) :
                    Size(p.prioritizedPartitions[i].partitions[k].value) > 0}} :
            i \in 1..Len(p.prioritizedPartitions)}

\* The arguments of a Put call that are accepted: those whose id the
\* scheduler does not contain when their turn comes.
RECURSIVE AcceptedArgs(_, _)
AcceptedArgs(s, tasks) ==
    IF tasks = <<>> THEN <<>>
    ELSE (IF Contains(s, Head(tasks)) THEN <<>> ELSE <<Head(tasks)>>)
            \o AcceptedArgs(Put(s, <<Head(tasks)>>), Tail(tasks))

\* seq without its first occurrence of t.
WithoutFirst(seq, t) ==
    LET hits == {i \in 1..Len(seq) : seq[i] = t}
    IN  IF hits = {} THEN seq
        ELSE LET e == CHOOSE x \in hits : \A y \in hits : x <= y
             IN  SubSeq(seq, 1, e - 1) \o SubSeq(seq, e + 1, Len(seq))

Batches == UNION {[1..n -> Tasks] : n \in 1..MaxBatch}

Range(seq) == {seq[i] : i \in 1..Len(seq)}

Returned(op, args, task) == [op |-> op, args |-> args, task |-> task]

\* ------------------------------------------------------------ the calls
\* What each call of the caller does to the program's own state.
\* sched.Put(tasks...)
DoPut(tasks) ==
    /\ sched' = Put(sched, tasks)
    /\ UNCHANGED <<pool, capacity, handles, scheduled, returned>>

\* sched.Next(); the caller keeps the ScheduledTask it is handed when it
\* carries a resource (Close of a defaultScheduledTask does nothing, lines
\* 17-26, and the model lets go of it).
DoNext ==
    LET r == Next(sched, pool, handles)
    IN  /\ sched' = r.s
        /\ pool' = r.pool
        /\ handles' = r.handles
        /\ scheduled' = IF r.resource = NoResource THEN scheduled
                        ELSE scheduled \cup {[t |-> r.task, resource |-> r.resource]}
        /\ UNCHANGED <<capacity, returned>>

\* sched.Remove(id)
DoRemove(id) ==
    /\ sched' = Remove(sched, id).s
    /\ UNCHANGED <<pool, capacity, handles, scheduled, returned>>

\* st.Close() on a ScheduledTask the caller holds
DoClose(st) ==
    LET r == ScheduledTask_Close(pool, handles, st)
    IN  /\ pool' = r.pool
        /\ handles' = r.handles
        /\ returned' = returned \cup ({st.resource} \ {NoResource})
        /\ UNCHANGED <<sched, capacity, scheduled>>

\* The bound on the handles a behaviour grants.
HandlesWithinBound == Len(Next(sched, pool, handles).handles) <= MaxHandles

\* The task the call returns in the current state.
NextTask == Next(sched, pool, handles).task

RemovedTask(id) == Remove(sched, id).task

\* The owed pairs after partition q of the partitioned scheduler s served.
OwedAfterServe(s, q) ==
    LET live == NonEmptyPartitions(s)
    IN  {x \in owed : x[1] # q /\ x[2] # q /\ x[2] \in live}
            \cup {<<q, r>> : r \in {y \in live : y # q /\ y[1] = q[1]}}

\* The calls with the history variables ret, accepted and owed recorded.
CallPut(tasks) ==
    /\ DoPut(tasks)
    /\ accepted' = accepted \o AcceptedArgs(sched, tasks)
    /\ ret' = Returned("Put", tasks, NoTask)
    /\ UNCHANGED owed

CallNext ==
    /\ DoNext
    /\ accepted' = WithoutFirst(accepted, NextTask)
    /\ owed' = IF sched.kind = "part" /\ NextTask # NoTask
               THEN OwedAfterServe(sched', PartitionOf(sched, NextTask))
               ELSE owed
    /\ ret' = Returned("Next", <<>>, NextTask)

CallRemove(id) ==
    /\ DoRemove(id)
    /\ accepted' = WithoutFirst(accepted, RemovedTask(id))
    /\ owed' = IF RemovedTask(id) = NoTask THEN owed ELSE {}
    /\ ret' = Returned("Remove", <<id>>, RemovedTask(id))

\* ------------------------------------------------- the schedulers checked
\* The capacity of a pool a factory creates (sim_ex.go: one connection a
\* lane), and the capacities tried for the root pool.
PartitionPoolCapacity == <<1>>

RootCapacities == {<<1>>, <<2>>}

Pools(root) == [id \in PoolIds |-> IF id = RootPool THEN root
                                   ELSE PartitionPoolCapacity]

\* The compositions without a resource pool, and those with one.
PlainCompositions ==
    {NewFifoScheduler,
     NewPartitionedScheduler("noPriPartitioner"),
     NewPartitionedScheduler("priPartitioner")}

ResourceCompositions ==
    {NewResourceManagedScheduler(NewFifoScheduler, RootPool,
                                 "singleUseResourceCalc"),
     NewResourceManagedScheduler(NewPartitionedScheduler("userPartitioner"),
                                 RootPool, "singleUseResourceCalc"),
     NewPartitionedScheduler("timeAndUserPartitioner"),
     NewPartitionedScheduler("priResourcePartitioner")}

\* sync.Mutex unlocked: no thread holds it.
NoThread == 0

\* One caller: no other threads, no wrapped scheduler followed, no Next
\* call made.
InitAside ==
    /\ threads = <<>>
    /\ mut = NoThread
    /\ drawn = <<>>
    /\ nextParity = 0

InitCommon ==
    /\ handles = <<>>
    /\ scheduled = {}
    /\ returned = {}
    /\ ret = Returned("new", <<>>, NoTask)
    /\ accepted = <<>>
    /\ owed = {}
    /\ nPut = 0
    /\ nNext = 0
    /\ nRemove = 0
    /\ input = <<>>
    /\ output = <<>>
    /\ InitAside

history == <<ret, accepted, owed>>

counters == <<nPut, nNext, nRemove>>

script == <<input, output>>

\* The state of the specifications with several threads and of the one that
\* follows the wrapped scheduler.
aside == <<threads, mut, drawn, nextParity>>

\* Spec: a FifoScheduler or a PartitionedScheduler over FifoSchedulers, under
\* every sequence of calls, with the history variables recorded.
Init ==
    /\ sched \in PlainCompositions
    /\ pool = Pools(PartitionPoolCapacity)
    /\ capacity = pool
    /\ InitCommon

Step ==
    \/ \E tasks \in Batches : CallPut(tasks) /\ UNCHANGED <<counters, script, aside>>
    \/ CallNext /\ UNCHANGED <<counters, script, aside>>
    \/ \E id \in Tasks : CallRemove(id) /\ UNCHANGED <<counters, script, aside>>

Spec == Init /\ [][Step]_vars

\* SpecResource: the compositions with a ResourceManagedScheduler, under
\* every sequence of calls; the program's state alone.
InitResource ==
    /\ sched \in ResourceCompositions
    /\ \E root \in RootCapacities :
        /\ sched.kind # "rms" => root = PartitionPoolCapacity
        /\ pool = Pools(root)
    /\ capacity = pool
    /\ InitCommon

ResourceTasks == 1..MaxResourceTask

ResourceBatches == UNION {[1..n -> ResourceTasks] : n \in 1..MaxResourceBatch}

StepResource ==
    \/ \E tasks \in ResourceBatches :
        DoPut(tasks) /\ UNCHANGED <<history, aside, counters, script>>
    \/ HandlesWithinBound /\ DoNext /\ UNCHANGED <<history, aside, counters, script>>
    \/ \E id \in ResourceTasks :
        DoRemove(id) /\ UNCHANGED <<history, aside, counters, script>>
    \/ \E st \in scheduled :
        DoClose(st) /\ UNCHANGED <<history, aside, counters, script>>

SpecResource == InitResource /\ [][StepResource]_vars

\* SpecAccounting: every composition, with the calls counted as the tests
\* count them: the accepted arguments of Put, the Next calls and the Remove
\* calls that returned a task.  MaxPuts and MaxRemoves bound the counters.
MaxPuts == 3

MaxRemoves == 2

CountPut(tasks) ==
    /\ nPut + Len(AcceptedArgs(sched, tasks)) <= MaxPuts
    /\ DoPut(tasks)
    /\ nPut' = nPut + Len(AcceptedArgs(sched, tasks))
    /\ UNCHANGED <<nNext, nRemove, history, aside, script>>

CountNext ==
    /\ HandlesWithinBound
    /\ DoNext
    /\ nNext' = nNext + (IF NextTask = NoTask THEN 0 ELSE 1)
    /\ UNCHANGED <<nPut, nRemove, history, aside, script>>

CountRemove(id) ==
    /\ nRemove < MaxRemoves
    /\ DoRemove(id)
    /\ nRemove' = nRemove + (IF RemovedTask(id) = NoTask THEN 0 ELSE 1)
    /\ UNCHANGED <<nPut, nNext, history, aside, script>>

CountClose(st) ==
    /\ DoClose(st)
    /\ UNCHANGED <<counters, history, aside, script>>

InitAccounting ==
    /\ sched \in PlainCompositions \cup ResourceCompositions
    /\ pool = Pools(PartitionPoolCapacity)
    /\ capacity = pool
    /\ InitCommon

StepAccounting ==
    \/ \E tasks \in Batches : CountPut(tasks)
    \/ CountNext
    \/ \E id \in Tasks : CountRemove(id)
    \/ \E st \in scheduled : CountClose(st)

SpecAccounting == InitAccounting /\ [][StepAccounting]_vars

\* SpecPool: one resourceVectorPool under every sequence of Request and
\* Return calls, a request of the wrong length, of a negative amount and a
\* second Return of a handle included.
MaxUnits == 2

PoolCapacities == {<<1>>, <<2, 1>>}

RequestVectors == UNION {[1..n -> -1..MaxUnits] : n \in 1..2}

\* pool.Request(NewResourceVectorRequest(v))
PoolRequest(v) ==
    LET r == resourceVectorPool_Request(pool, handles, RootPool, v)
    IN  /\ Len(r.handles) <= MaxHandles
        /\ pool' = r.pool
        /\ handles' = r.handles
        /\ UNCHANGED <<sched, capacity, scheduled, returned, history, aside, counters,
                       script>>

\* handles[h].Return()
PoolReturn(h) ==
    LET r == resourceVector_Return(pool, handles, h)
    IN  /\ pool' = r.pool
        /\ handles' = r.handles
        /\ returned' = returned \cup {h}
        /\ UNCHANGED <<sched, capacity, scheduled, history, aside, counters, script>>

InitPool ==
    /\ sched = NewFifoScheduler
    /\ \E c \in PoolCapacities : pool = [id \in {RootPool} |-> c]
    /\ capacity = pool
    /\ InitCommon

StepPool ==
    \/ \E v \in RequestVectors : PoolRequest(v)
    \/ \E h \in 1..Len(handles) : PoolReturn(h)

SpecPool == InitPool /\ [][StepPool]_vars

\* SpecScenario: the throttled round-robin of sim_ex.go: a
\* ResourceManagedScheduler over a PartitionedScheduler by user over
\* FifoSchedulers, one unit in the pool, one unit a task.  The tasks of input
\* are Put one by one, and then Next and Close on its result are repeated;
\* output is the sequence of the tasks Next returned.
ScenarioOrder == <<1, 2, 3, 4>>

ScenarioInputs ==
    {s \in [1..Len(ScenarioOrder) -> Range(ScenarioOrder)] :
        \A i, j \in 1..Len(ScenarioOrder) : s[i] = s[j] => i = j}

Outstanding(st) == st.resource # NoResource /\ handles[st.resource].pool # NoPool

ScenarioPut ==
    /\ nPut < Len(input)
    /\ DoPut(<<input[nPut + 1]>>)
    /\ nPut' = nPut + 1
    /\ UNCHANGED <<nNext, nRemove, history, aside, script>>

ScenarioNext ==
    /\ nPut = Len(input)
    /\ Size(sched) > 0
    /\ \A st \in scheduled : ~Outstanding(st)
    /\ DoNext
    /\ output' = IF NextTask = NoTask THEN output ELSE Append(output, NextTask)
    /\ nNext' = nNext + 1
    /\ UNCHANGED <<nPut, nRemove, history, aside, input>>

ScenarioClose ==
    \E st \in scheduled :
        /\ Outstanding(st)
        /\ DoClose(st)
        /\ UNCHANGED <<counters, history, aside, script>>

InitScenario ==
    /\ sched = NewResourceManagedScheduler(
                    NewPartitionedScheduler("userPartitioner"),
                    RootPool, "singleUseResourceCalc")
    /\ pool = [id \in {RootPool} |-> PartitionPoolCapacity]
    /\ capacity = pool
    /\ handles = <<>>
    /\ scheduled = {}
    /\ returned = {}
    /\ ret = Returned("new", <<>>, NoTask)
    /\ accepted = <<>>
    /\ owed = {}
    /\ nPut = 0
    /\ nNext = 0
    /\ nRemove = 0
    /\ input \in ScenarioInputs
    /\ output = <<>>
    /\ InitAside

StepScenario ==
    \/ ScenarioPut
    \/ ScenarioNext
    \/ ScenarioClose

SpecScenario == InitScenario /\ [][StepScenario]_vars

\* SpecPoolScenario: the calls of TestResourceVectorPoolRequest and
\* TestResourceVectorReturn on one pool of [1, 2]: the requests of input are
\* made one after the other, and then up to MaxReturns calls of Return on
\* the granted handles follow; output is the sequence of the calls with
\* what each returned.
MaxReturns == 2

PoolScenarioCapacity == <<1, 2>>

PoolScenarioRequests == <<(<<0, 0>>), (<<2, 0>>), (<<1, 0>>), (<<1>>)>>

PoolScenarioInputs ==
    {[i \in 1..Len(PoolScenarioRequests) |-> PoolScenarioRequests[f[i]]] :
        f \in {g \in [1..Len(PoolScenarioRequests) -> 1..Len(PoolScenarioRequests)] :
                \A i, j \in 1..Len(PoolScenarioRequests) : g[i] = g[j] => i = j}}

\* returned := pool.Request(requesting)
PoolScenarioRequest ==
    /\ Len(output) < Len(input)
    /\ LET v == input[Len(output) + 1]
           r == resourceVectorPool_Request(pool, handles, RootPool, v)
       IN  /\ pool' = r.pool
           /\ handles' = r.handles
           /\ output' = Append(output, [op |-> "Request", arg |-> v,
                                        res |-> r.resource])
    /\ UNCHANGED <<sched, capacity, scheduled, returned, history, aside, counters,
                   input>>

\* res := vec.Return()
PoolScenarioReturn(h) ==
    /\ Len(output) >= Len(input)
    /\ Len(output) < Len(input) + MaxReturns
    /\ LET r == resourceVector_Return(pool, handles, h)
       IN  /\ pool' = r.pool
           /\ handles' = r.handles
           /\ output' = Append(output, [op |-> "Return", arg |-> h,
                                        res |-> r.ok])
    /\ returned' = returned \cup {h}
    /\ UNCHANGED <<sched, capacity, scheduled, history, aside, counters, input>>

InitPoolScenario ==
    /\ sched = NewFifoScheduler
    /\ pool = [id \in {RootPool} |-> PoolScenarioCapacity]
    /\ capacity = pool
    /\ handles = <<>>
    /\ scheduled = {}
    /\ returned = {}
    /\ ret = Returned("new", <<>>, NoTask)
    /\ accepted = <<>>
    /\ owed = {}
    /\ nPut = 0 /\ nNext = 0 /\ nRemove = 0
    /\ input \in PoolScenarioInputs
    /\ output = <<>>
    /\ InitAside

StepPoolScenario ==
    \/ PoolScenarioRequest
    \/ \E h \in 1..Len(handles) : PoolScenarioReturn(h)

SpecPoolScenario == InitPoolScenario /\ [][StepPoolScenario]_vars

\* SpecConcurrent: several threads call Request and Return on one pool and
\* its handles, a statement of resource.go a step.  The pool's mutex is
\* held from Lock to the deferred Unlock; what a method does outside of it
\* (the length tests, and all of Return but its call of add) is not
\* protected.  Return reads r.pool twice, at line 30 and at line 33, with
\* no synchronisation: the second read either sees the value of the first
\* or the field as another thread has left it, and a nil receiver makes add
\* panic at line 72.
MaxThreads == 2

MaxCalls == 4

Threads == 1..MaxThreads

ThreadRequests == {<<1>>, <<2>>, <<1, 1>>}

IdleThread ==
    [pc |-> "idle", op |-> "none", v |-> <<>>, h |-> NoResource,
     seen |-> NoPool, resource |-> NoResource, ok |-> FALSE, calls |-> 0]

\* The calls all threads have made so far; a behaviour makes MaxCalls.
RECURSIVE CallsFrom(_)
CallsFrom(i) ==
    IF i > Len(threads) THEN 0 ELSE threads[i].calls + CallsFrom(i + 1)

CallsMade == CallsFrom(1)

\* r.mut.Lock() goes through with the mutex m.
Mut_MutexFree(m) == TRUE

\* r.mut.Lock() goes through when no thread holds the mutex m.
MutexFree(m) == m = NoThread

\* The frame of a step of thread i that changes only the thread itself.
ThreadOnly == UNCHANGED <<pool, handles, mut, returned>>

ThreadFrame ==
    UNCHANGED <<sched, capacity, scheduled, history, counters, script, drawn,
                nextParity>>

\* pool.Request(NewResourceVectorRequest(v)) is called
StartRequest(i, v) ==
    /\ threads[i].pc = "idle"
    /\ CallsMade < MaxCalls
    /\ threads' = [threads EXCEPT ![i] =
            [IdleThread EXCEPT !.pc = "req_len", !.op = "Request", !.v = v,
                               !.calls = threads[i].calls + 1]]
    /\ ThreadOnly

\* Request, lines 52-55
RequestLen(i) ==
    /\ threads[i].pc = "req_len"
    /\ threads' = [threads EXCEPT ![i].pc =
            IF Len(threads[i].v) # Len(pool[RootPool]) THEN "idle"
            ELSE "req_lock"]
    /\ ThreadOnly

\* Request, line 56
RequestLock(i) ==
    /\ threads[i].pc = "req_lock"
    /\ MutexFree(mut)
    /\ mut' = i
    /\ threads' = [threads EXCEPT ![i].pc = "req_check"]
    /\ UNCHANGED <<pool, handles, returned>>

\* Request, lines 58-62, and the deferred Unlock when nil is returned
RequestCheck(i) ==
    /\ threads[i].pc = "req_check"
    /\ IF RequestGranted(pool[RootPool], threads[i].v)
       THEN /\ threads' = [threads EXCEPT ![i].pc = "req_dec"]
            /\ UNCHANGED mut
       ELSE /\ threads' = [threads EXCEPT ![i].pc = "idle"]
            /\ mut' = NoThread
    /\ UNCHANGED <<pool, handles, returned>>

\* Request, lines 63-68, and the deferred Unlock
RequestDecrement(i) ==
    /\ threads[i].pc = "req_dec"
    /\ pool' = [pool EXCEPT ![RootPool] = Decrement(@, threads[i].v)]
    /\ handles' = Append(handles, [pool |-> RootPool,
                                   resources |-> threads[i].v])
    /\ mut' = NoThread
    /\ threads' = [threads EXCEPT ![i].pc = "idle",
                                  ![i].resource = Len(handles) + 1]
    /\ UNCHANGED returned

\* handles[h].Return() is called
StartReturn(i, h) ==
    /\ threads[i].pc = "idle"
    /\ CallsMade < MaxCalls
    /\ threads' = [threads EXCEPT ![i] =
            [IdleThread EXCEPT !.pc = "ret_test", !.op = "Return", !.h = h,
                               !.calls = threads[i].calls + 1]]
    /\ returned' = returned \cup {h}
    /\ UNCHANGED <<pool, handles, mut>>

\* Return, lines 30-32
ReturnTest(i) ==
    /\ threads[i].pc = "ret_test"
    /\ threads' = [threads EXCEPT ![i] =
            IF handles[threads[i].h].pool = NoPool
            THEN [@ EXCEPT !.pc = "idle", !.ok = FALSE]
            ELSE [@ EXCEPT !.pc = "ret_add",
                           !.seen = handles[threads[i].h].pool]]
    /\ ThreadOnly

\* Return, line 33: the receiver of add is r.pool as line 30 saw it or as it
\* is now; add, lines 72-74: a nil receiver panics.
ReturnCallAdd(i) ==
    /\ threads[i].pc = "ret_add"
    /\ \E receiver \in {threads[i].seen, handles[threads[i].h].pool} :
        threads' = [threads EXCEPT ![i] =
            IF receiver = NoPool THEN [@ EXCEPT !.pc = "panic"]
            ELSE [@ EXCEPT !.pc = "add_lock", !.seen = receiver]]
    /\ ThreadOnly

\* add, line 75
AddLock(i) ==
    /\ threads[i].pc = "add_lock"
    /\ MutexFree(mut)
    /\ mut' = i
    /\ threads' = [threads EXCEPT ![i].pc = "add_loop"]
    /\ UNCHANGED <<pool, handles, returned>>

\* add, lines 77-80, and the deferred Unlock
AddLoop(i) ==
    /\ threads[i].pc = "add_loop"
    /\ pool' = [pool EXCEPT ![threads[i].seen] =
                    resourceVectorPool_add(@, handles[threads[i].h].resources)]
    /\ mut' = NoThread
    /\ threads' = [threads EXCEPT ![i].pc = "ret_clear"]
    /\ UNCHANGED <<handles, returned>>

\* Return, lines 34-35
ReturnClear(i) ==
    /\ threads[i].pc = "ret_clear"
    /\ handles' = [handles EXCEPT ![threads[i].h].pool = NoPool]
    /\ threads' = [threads EXCEPT ![i].pc = "idle", ![i].ok = TRUE]
    /\ UNCHANGED <<pool, mut, returned>>

InitConcurrent ==
    /\ sched = NewFifoScheduler
    /\ \E c \in RootCapacities : pool = [id \in {RootPool} |-> c]
    /\ capacity = pool
    /\ handles = <<>>
    /\ scheduled = {}
    /\ returned = {}
    /\ ret = Returned("new", <<>>, NoTask)
    /\ accepted = <<>>
    /\ owed = {}
    /\ nPut = 0 /\ nNext = 0 /\ nRemove = 0
    /\ input = <<>>
    /\ output = <<>>
    /\ threads = [i \in Threads |-> IdleThread]
    /\ mut = NoThread
    /\ drawn = <<>>
    /\ nextParity = 0

StepConcurrent ==
    \E i \in Threads :
        \/ \E v \in ThreadRequests : StartRequest(i, v) /\ ThreadFrame
        \/ RequestLen(i) /\ ThreadFrame
        \/ RequestLock(i) /\ ThreadFrame
        \/ RequestCheck(i) /\ ThreadFrame
        \/ RequestDecrement(i) /\ ThreadFrame
        \/ \E h \in 1..Len(handles) : StartReturn(i, h) /\ ThreadFrame
        \/ ReturnTest(i) /\ ThreadFrame
        \/ ReturnCallAdd(i) /\ ThreadFrame
        \/ AddLock(i) /\ ThreadFrame
        \/ AddLoop(i) /\ ThreadFrame
        \/ ReturnClear(i) /\ ThreadFrame

SpecConcurrent == InitConcurrent /\ [][StepConcurrent]_vars

\* SpecWrapped: the ResourceManagedScheduler as a wrapper of any Scheduler:
\* over another ResourceManagedScheduler with a pool of its own, over a
\* PartitionedScheduler whose partitions are ResourceManagedSchedulers, and
\* over a FifoScheduler with a calculator whose demand depends on the task.
\* drawn is the sequence of the tasks the wrapped scheduler's Next answered
\* to the wrapper, output the sequence of the tasks the wrapper's Next
\* returned to the caller.
InnerPool == <<0, "inner">>

InnerPoolCapacity == <<1>>

WrappedCompositions ==
    {NewResourceManagedScheduler(
        NewResourceManagedScheduler(NewFifoScheduler, InnerPool,
                                    "singleUseResourceCalc"),
        RootPool, "singleUseResourceCalc"),
     NewResourceManagedScheduler(
        NewPartitionedScheduler("priResourcePartitioner"),
        RootPool, "singleUseResourceCalc"),
     NewResourceManagedScheduler(NewFifoScheduler, RootPool,
                                 "unitsResourceCalc")}

WrappedPools(root) ==
    [id \in PoolIds \cup {InnerPool} |->
        IF id = RootPool THEN root
        ELSE IF id = InnerPool THEN InnerPoolCapacity
        ELSE PartitionPoolCapacity]

\* The task the wrapper draws from the wrapped scheduler in this Next, NoTask
\* when it does not ask (a task is parked) or is answered nil.
DrawnTask ==
    IF sched.waiting # NoTask THEN NoTask
    ELSE Next(sched.underlying, pool, handles).task

WrappedFrame ==
    UNCHANGED <<history, nPut, nNext, input, threads, mut, nextParity>>

WrappedPut(t) ==
    /\ DoPut(<<t>>)
    /\ UNCHANGED <<drawn, output, nRemove>>
    /\ WrappedFrame

\* A Next grants one handle a layer at most.
WrappedNext ==
    /\ Len(Next(sched, pool, handles).handles) <= 2 * MaxHandles
    /\ DoNext
    /\ drawn' = IF DrawnTask = NoTask THEN drawn ELSE Append(drawn, DrawnTask)
    /\ output' = IF NextTask = NoTask THEN output ELSE Append(output, NextTask)
    /\ UNCHANGED nRemove
    /\ WrappedFrame

WrappedRemove(id) ==
    /\ nRemove < MaxRemoves
    /\ DoRemove(id)
    /\ nRemove' = IF RemovedTask(id) = NoTask THEN nRemove ELSE nRemove + 1
    /\ UNCHANGED <<drawn, output>>
    /\ WrappedFrame

WrappedClose(st) ==
    /\ DoClose(st)
    /\ UNCHANGED <<drawn, output, nRemove>>
    /\ WrappedFrame

InitWrapped ==
    /\ sched \in WrappedCompositions
    /\ \E root \in RootCapacities : pool = WrappedPools(root)
    /\ capacity = pool
    /\ InitCommon

StepWrapped ==
    \/ \E t \in ResourceTasks : WrappedPut(t)
    \/ WrappedNext
    \/ \E id \in ResourceTasks : WrappedRemove(id)
    \/ \E st \in scheduled : WrappedClose(st)

SpecWrapped == InitWrapped /\ [][StepWrapped]_vars

\* SpecInconsistent: a PartitionedScheduler over FifoSchedulers whose
\* partitioner answers differently for the same task from call to call,
\* with the accounting of SpecAccounting.
InitInconsistent ==
    /\ sched = NewPartitionedScheduler("flipPartitioner0")
    /\ pool = Pools(PartitionPoolCapacity)
    /\ capacity = pool
    /\ InitCommon

StepInconsistent ==
    \/ \E tasks \in Batches : CountPut(tasks)
    \/ CountNext
    \/ \E id \in Tasks : CountRemove(id)

SpecInconsistent == InitInconsistent /\ [][StepInconsistent]_vars

\* SpecProgress: a ResourceManagedScheduler over a FifoScheduler or over a
\* PartitionedScheduler of FifoSchedulers, every task demanding one unit of
\* a pool of one or two, under every sequence of calls of a caller that
\* goes on calling Next and closes every ScheduledTask it was handed (the
\* loop of Simulate).  A closed resourceTask is let go of: its resource
\* vector is garbage, and the vectors still out are renumbered.  ret keeps
\* the call made and the task it answered, not its arguments.
ProgressCompositions ==
    {NewResourceManagedScheduler(NewFifoScheduler, RootPool,
                                 "singleUseResourceCalc"),
     NewResourceManagedScheduler(NewPartitionedScheduler("userPartitioner"),
                                 RootPool, "singleUseResourceCalc"),
     NewResourceManagedScheduler(NewPartitionedScheduler("priPartitioner"),
                                 RootPool, "singleUseResourceCalc")}

\* The handles without the one at h.
Forgotten(hs, h) ==
    [i \in 1..(Len(hs) - 1) |-> IF i < h THEN hs[i] ELSE hs[i + 1]]

\* The ScheduledTasks the caller holds once it let go of st.
Renumbered(sts, st) ==
    {[t |-> x.t,
      resource |-> IF x.resource > st.resource THEN x.resource - 1
                   ELSE x.resource] : x \in sts \ {st}}

ProgressFrame ==
    UNCHANGED <<capacity, returned, accepted, owed, counters, script, aside>>

ProgressPut(t) ==
    /\ sched' = Put(sched, <<t>>)
    /\ ret' = Returned("Put", <<>>, NoTask)
    /\ UNCHANGED <<pool, handles, scheduled>>
    /\ ProgressFrame

ProgressNext ==
    /\ DoNext
    /\ ret' = Returned("Next", <<>>, NextTask)
    /\ nextParity' = 1 - nextParity
    /\ UNCHANGED <<accepted, owed, counters, script, threads, mut, drawn>>

ProgressRemove(id) ==
    /\ sched' = Remove(sched, id).s
    /\ ret' = Returned("Remove", <<>>, RemovedTask(id))
    /\ UNCHANGED <<pool, handles, scheduled>>
    /\ ProgressFrame

ProgressClose(st) ==
    LET r == ScheduledTask_Close(pool, handles, st)
    IN  /\ pool' = r.pool
        /\ handles' = Forgotten(r.handles, st.resource)
        /\ scheduled' = Renumbered(scheduled, st)
        /\ ret' = Returned("Close", <<>>, NoTask)
        /\ UNCHANGED sched
        /\ ProgressFrame

\* The ScheduledTask held longest is closed.
ProgressCloseOldest ==
    \E st \in scheduled : st.resource = 1 /\ ProgressClose(st)

InitProgress ==
    /\ sched \in ProgressCompositions
    /\ \E root \in RootCapacities : pool = Pools(root)
    /\ capacity = pool
    /\ InitCommon

StepProgress ==
    \/ \E t \in Tasks : ProgressPut(t)
    \/ ProgressNext
    \/ \E id \in Tasks : ProgressRemove(id)
    \/ \E st \in scheduled : ProgressClose(st)

\* Next keeps being called: it can be called in every state and every call
\* changes nextParity, so this is weak fairness of ProgressNext, written
\* with the parity.  Every ScheduledTask handed out is closed: the one held
\* longest is closed while it is held, so each one is.
SpecProgress ==
    /\ InitProgress
    /\ [][StepProgress]_vars
    /\ []<>(nextParity = 0) /\ []<>(nextParity = 1)
    /\ WF_vars(ProgressCloseOldest)

\* ------------------------------------------------------------ the claims
\* seq with every occurrence of t left out, the order of the rest kept.
Without(seq, t) == SelectSeq(seq, LAMBDA x : x # t)

\* C2: within one priority level of a PartitionedScheduler over
\* FifoSchedulers retrieval is strict round-robin under any interleaving of
\* Put and Next: when Next serves a partition q again, no other partition of
\* q's level has held a task ever since q's previous turn without having
\* been served in between.
C2_StrictRoundRobin ==
    [][(sched.kind = "part" /\ ret'.op = "Next" /\ ret'.task # NoTask)
        => \A x \in owed : x[1] # PartitionOf(sched, ret'.task)]_vars

\* C4: for a FifoScheduler and a PartitionedScheduler, a Put all of whose
\* arguments are already contained changes nothing at all (size, membership,
\* cursors, and with them every future result); any Put grows Size by the
\* number of distinct arguments that were absent, so Put(T); Put(T) with T
\* absent grows it by exactly 1; and a task that Next returns is no longer
\* contained, so a new Put of it is accepted.
C4_DuplicatePutIsNoOp ==
    [][/\ ret'.op = "Put" =>
            LET args == Range(ret'.args)
                fresh == {t \in args : ~Contains(sched, t)}
            IN  /\ fresh = {} => sched' = sched
                /\ Size(sched') = Size(sched) + Cardinality(fresh)
                /\ \A t \in Tasks :
                     Contains(sched', t) <=> (Contains(sched, t) \/ t \in args)
       /\ (ret'.op = "Next" /\ ret'.task # NoTask) =>
            /\ ~Contains(sched', ret'.task)
            /\ Size(Put(sched', <<ret'.task>>)) = Size(sched') + 1]_vars

\* C4's case: the last call was Put(T, T) on a PartitionedScheduler that
\* held another task, and it holds two tasks now, T the newer one.
C4_Witness ==
    /\ sched.kind = "part"
    /\ ret.op = "Put"
    /\ ret.args = <<1, 1>>
    /\ accepted = <<2, 1>>
    /\ Size(sched) = 2
    /\ Contains(sched, 1)

\* C9: a FifoScheduler returns tasks in strict insertion order under any
\* interleaving of Put, Next and Remove: Next returns the contained task
\* that was accepted first, and nothing exactly when the scheduler is empty;
\* Remove takes its task out and keeps the order of the others.
C9_FifoInsertionOrder ==
    [][sched.kind = "fifo" =>
        /\ ret'.op = "Next" =>
            /\ ret'.task = (IF accepted = <<>> THEN NoTask ELSE Head(accepted))
            /\ ret'.task = NoTask <=> Size(sched) = 0
            /\ sched'.elements = Without(sched.elements, ret'.task)
        /\ ret'.op = "Remove" =>
            /\ ret'.task = (IF ret'.args[1] \in Range(accepted)
                            THEN ret'.args[1] ELSE NoTask)
            /\ sched'.elements = Without(sched.elements, ret'.args[1])
        /\ sched'.elements = accepted']_vars

\* C9's case: Next has handed out task 2, accepted before the tasks 1 and 3
\* that the FifoScheduler still holds in the order of their acceptance.
C9_Witness ==
    /\ sched.kind = "fifo"
    /\ ret.op = "Next"
    /\ ret.task = 2
    /\ sched.elements = <<1, 3>>

\* C1: a PartitionedScheduler with several priority levels, whatever its
\* factories produce, never returns from Next a task of priority p while it
\* still holds a task of a priority greater than p.
C1_PriorityDominance ==
    [][(sched.kind = "part" /\ DoNext /\ NextTask # NoTask)
        => \A t \in HeldIds(sched') :
              PartitionerPriority(sched.partitioner, t)
                <= PartitionerPriority(sched.partitioner, NextTask)]_vars

\* C3: with a, b of user 1 and x, y of user 2 Put in the order a, x, b, y
\* (the tasks 1, 2, 3, 4) into the throttled round-robin scheduler, Next and
\* Close repeated return the tasks in the order a, x, b, y.
C3_FairThrottling ==
    input = ScenarioOrder
        => /\ Len(output) <= Len(ScenarioOrder)
           /\ \A i \in 1..Len(output) : output[i] = ScenarioOrder[i]

\* C5: a ResourceManagedScheduler with a parked task drops a Put of a task
\* with the parked task's id, so that Size does not change, and in no state
\* it reaches is the parked task's id held by the underlying scheduler too.
C5_ParkedIdUnique ==
    [][/\ \A tasks \in Batches :
            (/\ sched.kind = "rms"
             /\ sched.waiting # NoTask
             /\ Range(tasks) = {sched.waiting}
             /\ DoPut(tasks)) => Size(sched') = Size(sched)
       /\ (sched'.kind = "rms" /\ sched'.waiting # NoTask)
            => sched'.waiting \notin HeldIds(sched'.underlying)]_vars

\* C6: on a ResourceManagedScheduler with task t parked, Remove(t.id)
\* returns t, leaves the underlying scheduler alone and empties the parked
\* slot: afterwards Contains(t) is false and Size is one less.
C6_RemoveParked ==
    [][\A id \in Tasks :
        (/\ sched.kind = "rms"
         /\ sched.waiting = id
         /\ id \notin HeldIds(sched.underlying)
         /\ CountRemove(id))
        => /\ RemovedTask(id) = id
           /\ sched'.underlying = sched.underlying
           /\ sched'.waiting = NoTask
           /\ ~Contains(sched', id)
           /\ Size(sched') = Size(sched) - 1]_vars

\* Every id cache of s mirrors what the scheduler it stands for holds.
RECURSIVE CachesMirror(_)
CachesMirror(s) ==
    CASE s.kind = "fifo" -> s.elementMap = Range(s.elements)
      [] s.kind = "rms" -> CachesMirror(s.underlying)
      [] s.kind = "part" ->
            \A i \in 1..Len(s.prioritizedPartitions) :
                \A j \in 1..Len(s.prioritizedPartitions[i].partitions) :
                    LET q == s.prioritizedPartitions[i].partitions[j]
                    IN  q.cache = HeldIds(q.value) /\ CachesMirror(q.value)

\* C7: in every reachable state of every kind and nesting of schedulers,
\* Contains(t) is true exactly when a task with t's id is held, and each
\* partition's id cache is the set of ids its sub-scheduler holds.
C7_MembershipMirror ==
    /\ \A t \in Tasks : Contains(sched, t) <=> t \in HeldIds(sched)
    /\ CachesMirror(sched)

\* C8: for every kind of scheduler and every sequence of calls, Size is the
\* number of accepted Put arguments less the Next calls and the Remove
\* calls that returned a task (a parked task counting as contained).
C8_SizeAccounting == Size(sched) = nPut - nNext - nRemove

\* The sum over the handles of hs that pool id has granted and that have
\* not been returned of component i of their vectors.
RECURSIVE SumOutstanding(_, _, _)
SumOutstanding(hs, id, i) ==
    IF hs = <<>> THEN 0
    ELSE (IF Head(hs).pool = id THEN Head(hs).resources[i] ELSE 0)
            + SumOutstanding(Tail(hs), id, i)

\* C10: after any sequence of Request and Return calls on a pool, what the
\* pool has available plus the component-wise sum of the vectors of the
\* granted handles not yet returned is the pool's initial capacity.
C10_PoolConservation ==
    \A id \in DOMAIN pool :
        /\ Len(pool[id]) = Len(capacity[id])
        /\ \A i \in 1..Len(capacity[id]) :
              pool[id][i] + SumOutstanding(handles, id, i) = capacity[id][i]

\* C10's case: of three handles granted one has been returned, one of a
\* two-component vector is outstanding, and the pool is not at capacity.
C10_Witness ==
    /\ Len(handles) = MaxHandles
    /\ \E h, k \in 1..Len(handles) :
        /\ handles[h].pool = NoPool
        /\ handles[k].pool = RootPool
        /\ handles[k].resources = <<2, 1>>
    /\ pool[RootPool] # capacity[RootPool]

\* The component-wise sum of two vectors of one length.
VectorPlus(a, v) == [i \in 1..Len(a) |-> a[i] + v[i]]

\* C11: the first Return on a granted handle answers true and adds the
\* handle's vector to the pool; every later Return on it answers false and
\* leaves the pool as it is; Return on a request vector that was never
\* granted answers false and changes no pool.
C11_OneShotReturn ==
    /\ \A h \in 1..Len(handles) :
        LET r == resourceVector_Return(pool, handles, h)
            again == resourceVector_Return(r.pool, r.handles, h)
        IN  /\ h \notin returned =>
                /\ r.ok
                /\ r.pool[RootPool] = VectorPlus(pool[RootPool], handles[h].resources)
            /\ h \in returned => ~r.ok /\ r.pool = pool
            /\ ~again.ok
            /\ again.pool = r.pool
    /\ \A v \in RequestVectors :
        LET hs == Append(handles, NewResourceVectorRequest(v))
            r == resourceVector_Return(pool, hs, Len(hs))
        IN  ~r.ok /\ r.pool = pool

\* C11's case: Return has been called on the first of two granted handles,
\* the second, of one unit, is still out.
C11_Witness ==
    /\ Len(handles) = 2
    /\ returned = {1}
    /\ handles[1].resources = <<1>>
    /\ handles[2].resources = <<1>>
    /\ pool[RootPool] = <<0>>

\* Component i of the sum of the vectors that pool id granted to the first
\* h handles, of those handed out by Next and not closed since.
RECURSIVE SumNotClosed(_, _, _)
SumNotClosed(h, id, i) ==
    IF h = 0 THEN 0
    ELSE (IF /\ h \in {st.resource : st \in scheduled} \ returned
             /\ handles[h].pool = id
          THEN handles[h].resources[i] ELSE 0)
            + SumNotClosed(h - 1, id, i)

\* C12: the vectors granted to the tasks Next returned and that are not
\* closed sum to at most the initial capacity of the pool, component by
\* component; a task Next returns carries a resource: a fresh handle with the
\* task's demand, from a pool that could supply it; so Next returns nothing
\* when the pool cannot supply the demand.
C12_AdmissionBound ==
    /\ \A id \in DOMAIN pool :
        \A i \in 1..Len(capacity[id]) :
            SumNotClosed(Len(handles), id, i) <= capacity[id][i]
    /\ LET r == Next(sched, pool, handles)
       IN  r.task # NoTask =>
            /\ r.resource = Len(handles) + 1
            /\ Len(r.handles) = Len(handles) + 1
            /\ r.handles[r.resource].resources
                    = ResourceCalculator("singleUseResourceCalc", r.task)
            /\ r.handles[r.resource].pool \in DOMAIN pool
            /\ \A i \in 1..Len(r.handles[r.resource].resources) :
                    r.handles[r.resource].resources[i]
                        <= pool[r.handles[r.resource].pool][i]

\* C12's case: a pool of two units, both granted to tasks that Next
\* returned and that are not closed, and a third task parked.
C12_Witness ==
    /\ sched.kind = "rms"
    /\ capacity[RootPool] = <<2>>
    /\ pool[RootPool] = <<0>>
    /\ Cardinality(scheduled) = 2
    /\ returned = {}
    /\ sched.waiting # NoTask

\* The ResourceManagedScheduler the caller holds has a task parked whose
\* demand its pool cannot supply.
Starved ==
    /\ sched.kind = "rms"
    /\ sched.waiting # NoTask
    /\ \E i \in 1..Len(pool[sched.pool]) :
        ResourceCalculator(sched.resourceCalculator, sched.waiting)[i]
            > pool[sched.pool][i]

\* Next on s answers nothing and leaves s, the pools and the handles alone.
NextIsInert(s) ==
    LET r == Next(s, pool, handles)
    IN  /\ r.task = NoTask
        /\ r.s = s
        /\ r.pool = pool
        /\ r.handles = handles

\* C13: once the pool has denied the demand of the task t that Next drew,
\* as long as nothing is returned to the pool and t is not removed, every
\* Next answers nothing and changes nothing (t stays parked, Size stays),
\* Contains(t) is true, and neither a Put nor a Remove of another id in
\* between changes that.
C13_StarvationPersists ==
    Starved =>
        /\ NextIsInert(sched)
        /\ Contains(sched, sched.waiting)
        /\ \A tasks \in ResourceBatches :
            LET s2 == Put(sched, tasks)
            IN  /\ s2.waiting = sched.waiting
                /\ Contains(s2, sched.waiting)
                /\ NextIsInert(s2)
        /\ \A id \in ResourceTasks \ {sched.waiting} :
            LET s3 == Remove(sched, id).s
            IN  /\ s3.waiting = sched.waiting
                /\ Contains(s3, sched.waiting)
                /\ NextIsInert(s3)

\* C13's case: the one unit of the pool is out, task 1 is parked, and a
\* task Put since waits in the underlying scheduler.
C13_Witness ==
    /\ Starved
    /\ capacity[RootPool] = <<1>>
    /\ sched.waiting = 1
    /\ Size(sched) = 2
    /\ sched.underlying.kind = "fifo"
    /\ sched.underlying.elements = <<2>>
    /\ \E st \in scheduled : st.t = 2 /\ st.resource \notin returned

\* C14: the first Close on a task a ResourceManagedScheduler returned gives
\* the vector granted to it, the task's demand, back to the pool that issued
\* it, and every later Close changes nothing; when such a Close leaves the
\* pool able to supply the demand of the parked task, the next Next returns
\* the parked task with a resource.
C14_CloseReturnsOnce ==
    \A st \in scheduled :
        LET h == st.resource
            r == ScheduledTask_Close(pool, handles, st)
            again == ScheduledTask_Close(r.pool, r.handles, st)
            n == Next(sched, r.pool, r.handles)
        IN  /\ handles[h].resources
                    = ResourceCalculator("singleUseResourceCalc", st.t)
            /\ h \notin returned =>
                /\ handles[h].pool \in DOMAIN pool
                /\ r.pool = [pool EXCEPT ![handles[h].pool] =
                                VectorPlus(@, handles[h].resources)]
            /\ h \in returned => r.pool = pool /\ r.handles = handles
            /\ again = r
            /\ (/\ sched.kind = "rms"
                /\ sched.waiting # NoTask
                /\ \A i \in 1..Len(r.pool[sched.pool]) :
                    ResourceCalculator(sched.resourceCalculator, sched.waiting)[i]
                        <= r.pool[sched.pool][i])
                => /\ n.task = sched.waiting
                   /\ n.resource = Len(handles) + 1
                   /\ n.s.waiting = NoTask
                   /\ n.s.underlying = sched.underlying

\* C14's case: the task that held the one unit of the pool has been closed
\* while another task was parked: the pool is whole again and the parked
\* task has not been asked for yet.
C14_Witness ==
    /\ sched.kind = "rms"
    /\ sched.waiting # NoTask
    /\ capacity[RootPool] = <<1>>
    /\ pool[RootPool] = <<1>>
    /\ Cardinality(scheduled) = 1
    /\ returned = {1}

\* The request v has the pool's length and no component above what the
\* pool has available.
Fits(v) ==
    /\ Len(v) = Len(pool[RootPool])
    /\ \A i \in 1..Len(v) : v[i] <= pool[RootPool][i]

\* C15: Request(v) is granted iff v has the pool's length and v[i] <= a[i]
\* for every i; a grant leaves a - v available, and the new handle holds v
\* and refers back to the pool, the handles granted before staying as they
\* were; a request of zeros is granted and leaves the pool as it was.
C15_RequestGrants ==
    \A v \in RequestVectors :
        LET a == pool[RootPool]
            r == resourceVectorPool_Request(pool, handles, RootPool, v)
        IN  /\ (r.resource # NoResource) <=> Fits(v)
            /\ Fits(v) =>
                /\ DOMAIN r.pool = DOMAIN pool
                /\ Len(r.pool[RootPool]) = Len(a)
                /\ \A i \in 1..Len(a) : r.pool[RootPool][i] = a[i] - v[i]
                /\ r.resource = Len(handles) + 1
                /\ Len(r.handles) = Len(handles) + 1
                /\ r.handles[r.resource].resources = v
                /\ r.handles[r.resource].pool = RootPool
                /\ \A h \in 1..Len(handles) : r.handles[h] = handles[h]
                /\ resourceVector_Return(r.pool, r.handles, r.resource).pool = pool
            /\ (Fits(v) /\ \A i \in 1..Len(v) : v[i] = 0) => r.pool = pool

\* C15's case: a pool of <<2, 1>> has granted <<1, 0>> and then <<0, 0>>.
C15_Witness ==
    /\ capacity[RootPool] = <<2, 1>>
    /\ pool[RootPool] = <<1, 1>>
    /\ Len(handles) = 2
    /\ handles[1] = [pool |-> RootPool, resources |-> <<1, 0>>]
    /\ handles[2] = [pool |-> RootPool, resources |-> <<0, 0>>]

\* C16: a Request whose vector has another length than the pool's, or a
\* component above what is available, returns nil and changes no component
\* of the available vector and no handle.
C16_DeniedRequestLeavesPool ==
    \A v \in RequestVectors :
        LET r == resourceVectorPool_Request(pool, handles, RootPool, v)
        IN  ~Fits(v) =>
                /\ r.resource = NoResource
                /\ r.pool = pool
                /\ r.handles = handles

\* C16's case: a pool of <<2, 1>> that has <<1, 0>> left after two grants:
\* the request <<1, 1>> fits in its first component and not in its second,
\* and the request <<1>> has the wrong length.
C16_Witness ==
    /\ capacity[RootPool] = <<2, 1>>
    /\ pool[RootPool] = <<1, 0>>
    /\ ~Fits(<<1, 1>>)
    /\ ~Fits(<<1>>)
    /\ Len(handles) = 2
    /\ returned = {}

\* The tasks of seq that the partitioner name sends to the partition key.
OfPartition(seq, name, key) ==
    SelectSeq(seq, LAMBDA t : PartitionerKey(name, t) = key)

FifoPartitions(p) ==
    \A i \in 1..Len(p.prioritizedPartitions) :
        \A j \in 1..Len(p.prioritizedPartitions[i].partitions) :
            p.prioritizedPartitions[i].partitions[j].value.kind = "fifo"

\* C18: a PartitionedScheduler whose factories produce FifoSchedulers: Next
\* returns a task exactly when one is held, and no held task has a higher
\* priority than the returned one; the levels stand in descending order of
\* priority whatever the order of the Puts, and right after a Next that
\* returned a task of priority p the following Next returns none of a
\* priority above p.
C18_PriorityOrder ==
    (sched.kind = "part" /\ FifoPartitions(sched))
    => LET r == Next(sched, pool, handles)
           pri(t) == PartitionerPriority(sched.partitioner, t)
           levels == sched.prioritizedPartitions
       IN  /\ r.task = NoTask <=> HeldIds(sched) = {}
           /\ r.task # NoTask =>
                /\ r.task \in HeldIds(sched)
                /\ \A t \in HeldIds(sched) : pri(t) <= pri(r.task)
           /\ \A i, j \in 1..Len(levels) :
                i < j => levels[i].priority > levels[j].priority
           /\ (ret.op = "Next" /\ ret.task # NoTask /\ r.task # NoTask)
                => pri(r.task) <= pri(ret.task)

\* C18's case: task 2 of priority 1 was Put before task 1 of priority 2 and
\* task 3 of priority 3, and Next has returned task 3 ahead of both.
C18_Witness ==
    /\ sched.kind = "part"
    /\ sched.partitioner = "priPartitioner"
    /\ Len(sched.prioritizedPartitions) = 3
    /\ ret.op = "Next"
    /\ ret.task = 3
    /\ accepted = <<2, 1>>

\* C19: for every kind of scheduler, Remove of an id the scheduler does not
\* contain returns nothing and leaves the scheduler as it was: the same
\* tasks, parked slot and cursors, and so the same Size, Contains and future
\* Next results.
C19_RemoveAbsentIsNoOp ==
    \A id \in Tasks :
        ~Contains(sched, id) =>
            /\ Remove(sched, id).task = NoTask
            /\ Remove(sched, id).s = sched

\* The four requests of the scenario have been made in the scenario's order
\* on the pool of [1, 2]: <<0, 0>> granted, <<2, 0>> denied, <<1, 0>>
\* granted and <<1>> denied, the available vector after each as stated.
PoolScenarioRequested ==
    /\ input = PoolScenarioRequests
    /\ Len(output) >= Len(input)

RequestsAnswered ==
    /\ output[1].res = 1
    /\ output[2].res = NoResource
    /\ output[3].res = 2
    /\ output[4].res = NoResource
    /\ handles[1].resources = <<0, 0>>
    /\ handles[2].resources = <<1, 0>>
    /\ Len(output) = 4 => pool[RootPool] = <<0, 2>>

\* C20: after the four requests of the scenario, Return on the first grant
\* returns true and leaves <<1, 2>> available, and a second Return on the
\* same handle returns false and leaves <<1, 2>> available.
C20_ReturnFirstGrant ==
    PoolScenarioRequested =>
        /\ RequestsAnswered
        /\ (Len(output) >= 5 /\ output[5].arg = 1) =>
                /\ output[5].res = TRUE
                /\ Len(output) = 5 => pool[RootPool] = <<1, 2>>
        /\ (Len(output) = 6 /\ output[5].arg = 1 /\ output[6].arg = 1) =>
                /\ output[6].res = FALSE
                /\ pool[RootPool] = <<1, 2>>

\* C20 amended: after the four requests of the scenario, Return on the grant
\* of <<1, 0>>, the second grant, returns true and leaves <<1, 2>>
\* available, and a second Return on the same handle returns false and
\* leaves <<1, 2>> available.
C20_ReturnSecondGrant ==
    PoolScenarioRequested =>
        /\ RequestsAnswered
        /\ (Len(output) >= 5 /\ output[5].arg = 2) =>
                /\ output[5].res = TRUE
                /\ Len(output) = 5 => pool[RootPool] = <<1, 2>>
        /\ (Len(output) = 6 /\ output[5].arg = 2 /\ output[6].arg = 2) =>
                /\ output[6].res = FALSE
                /\ pool[RootPool] = <<1, 2>>

\* C20's case: the scenario's requests are done and Return has been called
\* twice on the grant of <<1, 0>>.
C20_Witness ==
    /\ PoolScenarioRequested
    /\ Len(output) = 6
    /\ output[5] = [op |-> "Return", arg |-> 2, res |-> TRUE]
    /\ output[6] = [op |-> "Return", arg |-> 2, res |-> FALSE]
    /\ pool[RootPool] = <<1, 2>>

\* C21: Return is atomic for concurrent callers: of two threads that call
\* Return on the same handle exactly one is answered true, neither fails,
\* and the pool is credited with the handle's vector once, so that it
\* never holds more than its capacity.
C21_ReturnAtomic ==
    /\ \A i, j \in DOMAIN threads :
        (/\ i # j
         /\ threads[i].op = "Return" /\ threads[j].op = "Return"
         /\ threads[i].h = threads[j].h
         /\ threads[i].pc = "idle" /\ threads[j].pc = "idle")
        => ~(threads[i].ok /\ threads[j].ok)
    /\ \A i \in DOMAIN threads : threads[i].pc # "panic"
    /\ \A k \in 1..Len(pool[RootPool]) :
        pool[RootPool][k] <= capacity[RootPool][k]

\* The statements a thread executes with the pool's mutex held.
Critical == {"req_check", "req_dec", "add_loop"}

\* C22: a pool shared by concurrent requesters never over-allocates: no
\* component of the available vector is ever negative, and while a thread
\* is between the test and the decrement of a Request (or in the loop of
\* add) it holds the mutex and no other thread is in such a section.
C22_NoOverAllocation ==
    /\ \A k \in 1..Len(pool[RootPool]) : pool[RootPool][k] >= 0
    /\ \A i \in DOMAIN threads : threads[i].pc \in Critical <=> mut = i
    /\ \A i, j \in DOMAIN threads :
        (threads[i].pc \in Critical /\ threads[j].pc \in Critical) => i = j

\* C22's case: two threads ask a pool of one unit for that unit at the same
\* time: thread 1 is past the test with the mutex held, thread 2 is at Lock.
C22_Witness ==
    /\ DOMAIN threads = Threads
    /\ capacity[RootPool] = <<1>>
    /\ threads[1].pc = "req_dec"
    /\ threads[2].pc = "req_lock"
    /\ threads[1].v = <<1>>
    /\ threads[2].v = <<1>>
    /\ mut = 1

\* The tasks parked in the ResourceManagedSchedulers of a composition.
RECURSIVE ParkedIds(_)
ParkedIds(s) ==
    CASE s.kind = "fifo" -> {}
      [] s.kind = "rms" -> ({s.waiting} \ {NoTask}) \cup ParkedIds(s.underlying)
      [] s.kind = "part" ->
            UNION {UNION {ParkedIds(s.prioritizedPartitions[i].partitions[j].value) :
                            j \in 1..Len(s.prioritizedPartitions[i].partitions)} :
                     i \in 1..Len(s.prioritizedPartitions)}

\* C23: no resource leaks in any composition, nested
\* ResourceManagedSchedulers included: once Close has been called on every
\* ScheduledTask the outermost Next returned and no scheduler holds a parked
\* task, every pool has its initial capacity available.
C23_NoResourceLeak ==
    (/\ \A st \in scheduled : st.resource \in returned
     /\ ParkedIds(sched) = {})
    => pool = capacity

\* C24: a ResourceManagedScheduler keeps the order of the scheduler it
\* wraps: as long as no Remove has taken a task out, the tasks its Next has
\* returned are, in order, the tasks the wrapped scheduler's Next answered,
\* all of them but the parked one, which is the last one drawn and the only
\* task the next successful Next can return.
C24_OrderPreserved ==
    nRemove = 0 =>
        /\ Len(output) <= Len(drawn)
        /\ SubSeq(drawn, 1, Len(output)) = output
        /\ Len(drawn) = Len(output) + (IF sched.waiting = NoTask THEN 0 ELSE 1)
        /\ sched.waiting # NoTask =>
            /\ drawn[Len(drawn)] = sched.waiting
            /\ Next(sched, pool, handles).task \in {NoTask, sched.waiting}
            /\ Next(sched, pool, handles).s.underlying = sched.underlying

\* C24's case: task 1 was returned, task 2 was drawn after it and is parked
\* because the pool has one unit left of the two it asks for.
C24_Witness ==
    /\ sched.resourceCalculator = "unitsResourceCalc"
    /\ capacity[RootPool] = <<2>>
    /\ pool[RootPool] = <<1>>
    /\ nRemove = 0
    /\ output = <<1>>
    /\ drawn = <<1, 2>>
    /\ sched.waiting = 2

\* C25: head-of-line blocking: while a ResourceManagedScheduler holds a
\* parked task t, Next returns t, exactly when the pool can supply t's
\* demand, or returns nothing and changes nothing; in either case the
\* underlying scheduler is not asked and keeps its contents, also when the
\* pool could supply the demand of the task that waits at its head.
C25_HeadOfLineBlocking ==
    (sched.kind = "rms" /\ sched.waiting # NoTask) =>
        LET r == Next(sched, pool, handles)
            fits == RequestGranted(pool[sched.pool],
                        ResourceCalculator(sched.resourceCalculator,
                                           sched.waiting))
        IN  /\ r.s.underlying = sched.underlying
            /\ Size(r.s.underlying) = Size(sched.underlying)
            /\ fits => /\ r.task = sched.waiting
                       /\ r.resource # NoResource
                       /\ r.s.waiting = NoTask
            /\ ~fits => /\ r.task = NoTask
                        /\ r.s = sched
                        /\ r.pool = pool
                        /\ r.handles = handles

\* C25's case: task 2, which asks for two units, is parked with one unit
\* available, and task 1, which asks for one, is the next of the underlying
\* FifoScheduler.
C25_Witness ==
    /\ sched.kind = "rms"
    /\ sched.resourceCalculator = "unitsResourceCalc"
    /\ sched.waiting = 2
    /\ pool[RootPool] = <<1>>
    /\ sched.underlying.elements = <<1>>
    /\ RequestGranted(pool[RootPool],
                      ResourceCalculator("unitsResourceCalc", 1))

\* The levels of p are in strictly descending order of priority, and no two
\* partitions of a level have the same key.
LevelsOrdered(p) ==
    LET levels == p.prioritizedPartitions
    IN  /\ \A i, j \in 1..Len(levels) :
            i < j => levels[i].priority > levels[j].priority
        /\ \A i \in 1..Len(levels) :
            \A j, k \in 1..Len(levels[i].partitions) :
                levels[i].partitions[j].key = levels[i].partitions[k].key
                    => j = k

\* Every level of p is a level of q, and its partitions are, in the same
\* order, the first partitions of that level in q.
LevelsKept(p, q) ==
    \A i \in 1..Len(p.prioritizedPartitions) :
        \E j \in 1..Len(q.prioritizedPartitions) :
            LET old == p.prioritizedPartitions[i]
                new == q.prioritizedPartitions[j]
            IN  /\ new.priority = old.priority
                /\ Len(new.partitions) >= Len(old.partitions)
                /\ \A k \in 1..Len(old.partitions) :
                    new.partitions[k].key = old.partitions[k].key

\* C26: in every reachable state of a PartitionedScheduler the levels are
\* sorted strictly descending by priority, the partitions of a level have
\* distinct keys and stand in the order of their creation, and no call
\* removes a level or a partition: each step keeps every level and appends
\* new partitions behind the old ones.
C26_LevelsSortedAndKept ==
    [][sched.kind = "part" =>
        /\ LevelsOrdered(sched')
        /\ LevelsKept(sched, sched')
        /\ Len(sched'.prioritizedPartitions) >= Len(sched.prioritizedPartitions)]_vars

\* C26's case: the three levels of priPartitioner were created lowest
\* priority first, and Next and Remove have emptied them all.
C26_Witness ==
    /\ sched.kind = "part"
    /\ sched.partitioner = "priPartitioner"
    /\ Len(sched.prioritizedPartitions) = 3
    /\ sched.prioritizedPartitions[1].priority = 3
    /\ Size(sched) = 0
    /\ ret.op = "Next"
    /\ ret.task = 2

\* The places <<i, j>> of p where partition j of level i is the partition
\* <<pri, key>>.
PlacesOf(p, pri, key) ==
    UNION {{<<i, j>> : j \in {k \in 1..Len(p.prioritizedPartitions[i].partitions) :
                        /\ p.prioritizedPartitions[i].priority = pri
                        /\ p.prioritizedPartitions[i].partitions[k].key = key}} :
            i \in 1..Len(p.prioritizedPartitions)}

\* The partitions of p: the calls of a factory so far, as no partition is
\* ever removed.
RECURSIVE PartitionCount(_, _)
PartitionCount(p, i) ==
    IF i > Len(p.prioritizedPartitions) THEN 0
    ELSE Len(p.prioritizedPartitions[i].partitions) + PartitionCount(p, i + 1)

\* C27: the factory is called at most once for a pair (priority, key): no
\* pair has two partitions, a Put of a task whose partition exists, empty or
\* not, creates no partition and hands the task to the sub-scheduler that
\* is there, and a Put of an accepted task whose partition is missing
\* creates exactly one.
C27_FactoryOncePerPartition ==
    sched.kind = "part" =>
        \A t \in Tasks :
            LET pri == PartitionerPriority(sched.partitioner, t)
                key == PartitionerKey(sched.partitioner, t)
                places == PlacesOf(sched, pri, key)
                q == Put(sched, <<t>>)
            IN  /\ Cardinality(places) <= 1
                /\ Cardinality(PlacesOf(q, pri, key)) <= 1
                /\ places # {} =>
                    /\ PartitionCount(q, 1) = PartitionCount(sched, 1)
                    /\ \A x \in places :
                        q.prioritizedPartitions[x[1]].partitions[x[2]].value
                          = IF Contains(sched, t)
                            THEN sched.prioritizedPartitions[x[1]]
                                    .partitions[x[2]].value
                            ELSE Put(sched.prioritizedPartitions[x[1]]
                                        .partitions[x[2]].value, <<t>>)
                /\ places = {} =>
                    PartitionCount(q, 1) = PartitionCount(sched, 1)
                        + (IF Contains(sched, t) THEN 0 ELSE 1)

\* C27's case: the partition "odd" was created for task 1 and is empty
\* again, the partition "even" holds task 2, and task 3 can be Put.
C27_Witness ==
    /\ sched.kind = "part"
    /\ sched.partitioner = "noPriPartitioner"
    /\ Len(sched.prioritizedPartitions) = 1
    /\ Len(sched.prioritizedPartitions[1].partitions) = 2
    /\ sched.prioritizedPartitions[1].partitions[1].key = "odd"
    /\ sched.prioritizedPartitions[1].partitions[1].value.elements = <<>>
    /\ sched.prioritizedPartitions[1].partitions[2].value.elements = <<2>>
    /\ ~Contains(sched, 3)

\* C28: a partitioner that answers another key or priority for the same
\* task on another call does not corrupt a PartitionedScheduler: no id is
\* held twice, Contains is true of exactly the ids held, with every
\* partition's cache the ids of its sub-scheduler, and Size is the accepted
\* Put arguments less the Next and Remove calls that returned a task.
C28_InconsistentPartitioner ==
    /\ Size(sched) = Cardinality(HeldIds(sched))
    /\ \A t \in Tasks : Contains(sched, t) <=> t \in HeldIds(sched)
    /\ CachesMirror(sched)
    /\ Size(sched) = nPut - nNext - nRemove
    /\ \A t \in HeldIds(sched) :
        /\ Remove(sched, t).task = t
        /\ Size(Remove(sched, t).s) = Size(sched) - 1
        /\ Put(sched, <<t>>) = sched

\* C28's case: task 1 was accepted twice, with Next in between, into
\* partitions of two levels, and task 3, for which the partitioner answers
\* the key "odd" on an even call, lies in the partition "even".
C28_Witness ==
    /\ sched.partitioner \in {"flipPartitioner0", "flipPartitioner1"}
    /\ Len(sched.prioritizedPartitions) = 2
    /\ nPut = 3
    /\ nNext = 1
    /\ HeldIds(sched) = {1, 3}
    /\ \E i \in 1..2 :
        \E j \in 1..Len(sched.prioritizedPartitions[i].partitions) :
            /\ sched.prioritizedPartitions[i].partitions[j].key = "even"
            /\ 3 \in sched.prioritizedPartitions[i].partitions[j].cache

\* C29: a Put of a task t that a PartitionedScheduler accepts leaves the
\* cursor of t's level on the partition that received t, whether it was
\* there or is new, and the cursors of the other levels where they were,
\* so that a Next that follows and serves t's level probes that partition
\* first and returns its oldest task.
C29_PutMovesCursor ==
    (sched.kind = "part" /\ FifoPartitions(sched)) =>
        \A t \in Tasks :
            ~Contains(sched, t) =>
                LET pri == PartitionerPriority(sched.partitioner, t)
                    key == PartitionerKey(sched.partitioner, t)
                    q == Put(sched, <<t>>)
                    levels == q.prioritizedPartitions
                    li == CHOOSE i \in 1..Len(levels) : levels[i].priority = pri
                    part == levels[li].partitions[levels[li].pos + 1]
                    r == Next(q, pool, handles)
                IN  /\ \E i \in 1..Len(levels) : levels[i].priority = pri
                    /\ part.key = key
                    /\ t \in part.cache
                    /\ part.value.elements[Len(part.value.elements)] = t
                    /\ \A x \in PlacesOf(sched, pri, key) :
                        part.value.elements =
                            Append(sched.prioritizedPartitions[x[1]]
                                    .partitions[x[2]].value.elements, t)
                    /\ \A i \in 1..Len(sched.prioritizedPartitions) :
                        sched.prioritizedPartitions[i].priority # pri =>
                            \E j \in 1..Len(levels) :
                                /\ levels[j].priority
                                    = sched.prioritizedPartitions[i].priority
                                /\ levels[j].pos
                                    = sched.prioritizedPartitions[i].pos
                    /\ (\A u \in HeldIds(sched) :
                            PartitionerPriority(sched.partitioner, u) <= pri)
                        => r.task = Head(part.value.elements)

\* C29's case: task 2 has just been Put into the new partition "even" while
\* the partition "odd" holds the older task 1: the cursor stands on "even".
C29_Witness ==
    /\ sched.kind = "part"
    /\ sched.partitioner = "noPriPartitioner"
    /\ ret.op = "Put"
    /\ ret.args = <<2>>
    /\ accepted = <<1, 2>>
    /\ sched.prioritizedPartitions[1].pos = 1
    /\ sched.prioritizedPartitions[1].partitions[2].key = "even"
    /\ Next(sched, pool, handles).task = 2

\* C30: a Next that returns nothing has no effect on capacity or
\* membership, whatever the kind and nesting of the scheduler: every pool
\* has the same vector available, no handle is granted, Size and the
\* contained ids are the same; a ResourceManagedScheduler is unchanged or
\* has moved one task from its underlying scheduler into the empty parked
\* slot, and asks for no resource when its underlying scheduler is empty.
C30_EmptyNextHasNoEffect ==
    LET r == Next(sched, pool, handles)
    IN  r.task = NoTask =>
            /\ r.pool = pool
            /\ r.handles = handles
            /\ r.resource = NoResource
            /\ Size(r.s) = Size(sched)
            /\ \A t \in Tasks : Contains(r.s, t) <=> Contains(sched, t)
            /\ sched.kind = "rms" =>
                \/ r.s = sched
                \/ /\ sched.waiting = NoTask
                   /\ r.s.waiting # NoTask
                   /\ Contains(sched.underlying, r.s.waiting)
                   /\ Size(r.s.underlying) = Size(sched.underlying) - 1
            /\ (sched.kind = "rms" /\ sched.waiting = NoTask
                    /\ Size(sched.underlying) = 0) => r.s = sched
            /\ sched.kind = "fifo" => r.s = sched


\* The PartitionedSchedulers within the scheduler s, s itself included.
RECURSIVE PartitionedWithin(_)
PartitionedWithin(s) ==
    CASE s.kind = "fifo" -> {}
      [] s.kind = "rms" -> PartitionedWithin(s.underlying)
      [] s.kind = "part" ->
            {s} \cup UNION {PartitionedWithin(
                                s.prioritizedPartitions[i].partitions[j].value) :
                            <<i, j>> \in {x \in (1..Len(s.prioritizedPartitions))
                                                \X (1..(MaxTask + 1)) :
                                x[2] <= Len(s.prioritizedPartitions[x[1]].partitions)}}

\* C31: PartitionedScheduler.Next is work-conserving: it answers nothing
\* only when the Next of the sub-scheduler of every partition of every
\* level answers nothing, and when every partition is a FifoScheduler it
\* answers nothing exactly when Size() is 0.
C31_WorkConserving ==
    \A p \in PartitionedWithin(sched) :
        LET r == Next(p, pool, handles)
            levels == p.prioritizedPartitions
        IN  /\ r.task = NoTask =>
                \A i \in 1..Len(levels) :
                    \A j \in 1..Len(levels[i].partitions) :
                        Next(levels[i].partitions[j].value,
                             pool, handles).task = NoTask
            /\ FifoPartitions(p) => (r.task = NoTask <=> Size(p) = 0)

\* C31's case: Next has drawn and parked a task in each of two resource
\* managed partitions whose pools are exhausted, and answers nothing
\* although Size() is 2.
C31_Witness ==
    /\ sched.kind = "part"
    /\ sched.partitioner = "priResourcePartitioner"
    /\ Next(sched, pool, handles).task = NoTask
    /\ Size(sched) = 2
    /\ \E i, k \in 1..Len(sched.prioritizedPartitions) :
        /\ i # k
        /\ sched.prioritizedPartitions[i].partitions[1].value.waiting # NoTask
        /\ sched.prioritizedPartitions[k].partitions[1].value.waiting # NoTask


\* Task t has just been answered by Next or by Remove.
Answered(t) ==
    \/ ret.op = "Next" /\ ret.task = t
    \/ ret.op = "Remove" /\ ret.task = t

GrantsNonNegative ==
    \A h \in 1..Len(handles) :
        \A i \in 1..Len(handles[h].resources) : handles[h].resources[i] >= 0

\* C33: as long as no request vector with a negative component is granted,
\* every component of what a pool has available lies between 0 and the
\* same component of the pool's initial capacity, after any sequence of
\* Request and Return calls, a Return repeated on one handle included.
C33_PoolBounds ==
    GrantsNonNegative =>
        \A id \in DOMAIN pool :
            \A i \in 1..Len(pool[id]) :
                /\ 0 <= pool[id][i]
                /\ pool[id][i] <= capacity[id][i]
                /\ \A h \in 1..Len(handles) :
                    LET r == resourceVector_Return(pool, handles, h)
                        again == resourceVector_Return(r.pool, r.handles, h)
                    IN  /\ r.pool[id][i] <= capacity[id][i]
                        /\ again.pool[id][i] <= capacity[id][i]

\* C33's case: the whole capacity <<2, 1>> was granted, returned and
\* granted again: the pool is back at 0 in both components, and Return has
\* been called on the first handle.
C33_Witness ==
    /\ capacity[RootPool] = <<2, 1>>
    /\ pool[RootPool] = <<0, 0>>
    /\ Len(handles) = 2
    /\ returned = {1}
    /\ handles[1].resources = <<2, 1>>
    /\ handles[2].resources = <<2, 1>>
    /\ GrantsNonNegative


\* C34: in every reachable state of a PartitionedScheduler every priority
\* level has at least one partition, and its round-robin cursor pos is at
\* least 0 and below the number of partitions of the level, so that the
\* modulo of Put and of Next never divides by zero and never indexes
\* outside the partitions; a further Put or Next keeps it so.
C34_CursorValid ==
    LET Valid(p) ==
            \A li \in 1..Len(p.prioritizedPartitions) :
                LET pi == p.prioritizedPartitions[li]
                IN  /\ Len(pi.partitions) >= 1
                    /\ 0 <= pi.pos
                    /\ pi.pos < Len(pi.partitions)
    IN  \A p \in PartitionedWithin(sched) :
            /\ Valid(p)
            /\ Valid(Next(p, pool, handles).s)
            /\ \A t \in Tasks : Valid(Put(p, <<t>>))

\* C34's case: Next took a task from the last of the two partitions of a
\* level and the cursor went round to the first, which is empty.
C34_Witness ==
    /\ sched.kind = "part"
    /\ ret.op = "Next"
    /\ ret.task # NoTask
    /\ Len(sched.prioritizedPartitions) = 1
    /\ Len(sched.prioritizedPartitions[1].partitions) = 2
    /\ sched.prioritizedPartitions[1].pos = 0
    /\ PartitionOf(sched, ret.task)
            = <<sched.prioritizedPartitions[1].priority,
                sched.prioritizedPartitions[1].partitions[2].key>>
    /\ Size(sched.prioritizedPartitions[1].partitions[1].value) = 0

====
